---- MODULE Spec2Model ----
(***************************************************************************)
(* State-machine model of the three per-frame subsystems of the scene      *)
(* explorer: AnimationManager (procedural animations), InteractionSystem   *)
(* (ray targeting and hover state) and PerformanceOptimizer (FPS tiers,    *)
(* LOD and frustum culling), together with the browser's animation-frame   *)
(* callback queue that drives them.                                        *)
(*                                                                         *)
(* Reals are fixed-point integers with Unit = 1.0.  Time is in whole       *)
(* seconds and every duration divides 4, so that progress is always a      *)
(* whole number of quarter cycles and Math.sin is exact on it.             *)
(***************************************************************************)
EXTENDS Integers, Sequences, FiniteSets, TLC

VARIABLES
  nodes,                 \* scene nodes: node name -> mutable attributes
  animations,            \* AnimationManager.animations (Map, insertion order)
  isRunning,             \* AnimationManager.isRunning
  now,                   \* THREE.Clock elapsed time of the AnimationManager
  rafQueue,              \* callbacks requested for the next animation frame
  frameQueue,            \* callbacks of the current frame not yet run
  frameLog,              \* history: what the callbacks of the current frame did
  animationId,           \* SceneManager.animationId # null
  interactableObjects,   \* InteractionSystem.interactableObjects
  currentHoveredObject,  \* InteractionSystem.currentHoveredObject
  pointerLocked,         \* document.pointerLockElement = canvas
  event,                 \* history: the last InteractionSystem call, what it saw
                         \* and the entity callbacks it fired, in order
  frameCount,            \* PerformanceOptimizer.frameCount
  sinceSample,           \* performance.now() - lastTime at the last timer callback
  averageFPS,            \* PerformanceOptimizer.averageFPS (integer part)
  performanceLevel,      \* PerformanceOptimizer.performanceLevel
  quality,               \* shadow map type/size, max shadow distance, fog
  optimizationSettings,  \* enableLOD, enableFrustumCulling
  lodObjects,            \* PerformanceOptimizer.lodObjects (Map, insertion order)
  camera,                \* camera position (y) and frustum content
  framesRendered,        \* history: frames rendered since the last sample
  sample,                \* history: frames, ms and previous tier of the last sample
  registrations,         \* history: number of addAnimation calls made
  regSnap,               \* history: node attributes at the registration of each id
  settingsVisible,       \* SettingsPanel.isVisible
  helpVisible,           \* HelpPanel.isVisible
  gameSettings,          \* SettingsPanel.settings (graphics part)
  ui,                    \* history: the last key press or button click
  textClock,             \* milliseconds since the page was loaded
  container,             \* TextDisplayManager.container # null
  currentMessage,        \* TextDisplayManager.currentMessage
  hideTimeout,           \* TextDisplayManager.hideTimeout (its deadline)
  clearTimers,           \* the delayed clears of hideMessage not yet run
  descriptionTimers,     \* the delayed showDescription calls not yet run
  messageCount,          \* history: number of showMessage calls made
  textLast,              \* history: the last TextDisplayManager step
  sounds,                \* AudioManager.sounds (names of the loaded buffers)
  sources,               \* AudioManager.sources
  gainNodes,             \* AudioManager.gainNodes
  started,               \* every AudioBufferSourceNode started so far
  last                   \* history: the last operation performed

animVars  == <<animations, isRunning, now>>
frameVars == <<rafQueue, frameQueue, frameLog, animationId>>
interVars == <<interactableObjects, currentHoveredObject, pointerLocked, event>>
perfVars  == <<frameCount, sinceSample, averageFPS, performanceLevel, quality,
               optimizationSettings, lodObjects, camera, framesRendered, sample>>
uiVars    == <<settingsVisible, helpVisible, gameSettings, ui>>
textVars  == <<textClock, container, currentMessage, hideTimeout, clearTimers, descriptionTimers,
               messageCount, textLast>>
audioVars == <<sounds, sources, gainNodes, started>>
mediaVars == <<textVars, audioVars>>
ghostVars == <<registrations, regSnap, last>>
vars == <<nodes, animVars, frameVars, interVars, perfVars, uiVars, mediaVars, ghostVars>>

----------------------------------------------------------------------------
(* Numbers *)

\* Fixed-point scale: the integer Unit stands for the real 1.0.
Unit == 100

\* IEEE NaN, which JavaScript yields for x % 0; it absorbs every operation.
NaN == -999999999

NumAdd(a, b) == IF a = NaN \/ b = NaN THEN NaN ELSE a + b

\* a * b for a fixed-point a and a plain integer b.
NumMul(a, b) == IF a = NaN \/ b = NaN THEN NaN ELSE a * b

\* a * f for two fixed-point numbers (rounded down to the model's precision).
NumScale(a, f) == IF a = NaN \/ f = NaN THEN NaN ELSE (a * f) \div Unit

Abs(i) == IF i < 0 THEN -i ELSE i

\* x % y of JavaScript for x >= 0: NaN for y = 0, else the remainder of x by |y|.
JsMod(x, y) == IF y = 0 THEN NaN ELSE x % Abs(y)

Vec(x, y, z) == [x |-> x, y |-> y, z |-> z]

\* Vector3.multiplyScalar / Color.multiplyScalar with a fixed-point factor.
MultiplyScalar(v, f) == [k \in DOMAIN v |-> NumScale(v[k], f)]

\* v.y += d
AddY(v, d) == [v EXCEPT !.y = NumAdd(@, d)]

----------------------------------------------------------------------------
(* Bounds of the model *)

MaxTime == 2            \* the clock stops advancing at MaxTime seconds
MaxLoopTime == 5        \* the same, where a whole cycle of 4 seconds must pass
MaxWaveTime == 3        \* the same, where the waveforms are sampled
MaxAnimations == 2      \* instances in the registry
MaxRegistrations == 2   \* addAnimation calls in a behaviour
MaxPending == 2         \* animation callbacks requested for one frame
MaxFrames == 50         \* frames rendered between two samples
MaxFrameSteps == 3      \* frames rendered between two samples, whole application
MaxEntities == 2        \* length of the list of interactable objects
MaxHits == 2            \* intersections of one ray
MaxDistance == 3        \* distance of an intersection
MaxTextTime == 5000     \* the text clock stops advancing at MaxTextTime ms
MaxMessages == 3        \* showMessage calls in a behaviour
MaxTimers == 2          \* pending timers of one kind set by calls of the user
MaxSources == 3         \* audio sources started in a behaviour

----------------------------------------------------------------------------
(* The scene graph. Its shape is fixed; the attributes of its nodes change. *)

Nodes == {"sword", "blade", "lantern"}

NoNode == "none"

\* Object3D.parent; the scene root is not a node of the model.
Parent(n) == IF n = "blade" THEN "sword" ELSE NoNode

\* object instanceof THREE.Mesh
IsMesh(n) == n \in {"blade", "lantern"}

\* object instanceof THREE.Mesh && object.material instanceof THREE.MeshPhongMaterial
IsPhongMesh(n) == n = "blade"

\* object.geometry.boundingSphere # null
HasBoundingSphere(n) == n = "blade"

InitNode(n) ==
  [position   |-> Vec(0, 5 * Unit, 0),
   rotation   |-> Vec(0, 0, 0),
   scale      |-> Vec(Unit, Unit, Unit),
   emissive   |-> [r |-> 0, g |-> IF IsPhongMesh(n) THEN Unit ELSE 0, b |-> 0],
   visible    |-> TRUE,
   shininess  |-> IF IsPhongMesh(n) THEN 100 ELSE 0,
   castShadow |-> IsMesh(n)]

----------------------------------------------------------------------------
(* AnimationManager *)


AnimationIds == {"a", "b"}
AnimationTypes == {"float", "rotate", "pulse", "glow", "bounce"}

\* AnimationConfig after the merge with the defaults loop: true, autoStart: true.
\* amplitude = 0 and speed = 0 stand for a value that is absent or 0: both are
\* falsy and take the default of the waveform.
Config(type, duration, amplitude, speed, loop, autoStart) ==
  [type |-> type, duration |-> duration, amplitude |-> amplitude,
   speed |-> speed, loop |-> loop, autoStart |-> autoStart]

\* The registrations the model's callers make: an id, a node, a configuration.
Request(id, object, config) == [id |-> id, object |-> object, config |-> config]

AnimationRequests ==
  { Request("a", "blade", Config("float", 4, 2 * Unit, 0, TRUE, TRUE)),
    Request("a", "blade", Config("rotate", 4, 0, 2 * Unit, TRUE, TRUE)),
    Request("a", "blade", Config("pulse", 4, 0, 0, TRUE, FALSE)),
    Request("a", "lantern", Config("glow", 2, 0, 0, TRUE, TRUE)),
    Request("a", "blade", Config("glow", 2, 2 * Unit, 0, TRUE, TRUE)),
    Request("a", "blade", Config("bounce", 4, Unit, 0, FALSE, TRUE)),
    Request("b", "blade", Config("float", 0, 0, 0, TRUE, TRUE)),
    Request("b", "lantern", Config("pulse", -4, Unit, 0, TRUE, TRUE)) }

\* A registry that stores a second instance under an id it already holds.
MapSetAppending(anims, entry) == Append(anims, entry)

\* Index of the instance stored under id, 0 when there is none (Map.get).
RECURSIVE IndexOfId(_, _, _)
IndexOfId(anims, id, i) ==
  IF i > Len(anims) THEN 0
  ELSE IF anims[i].id = id THEN i
  ELSE IndexOfId(anims, id, i + 1)

HasAnimation(id) == IndexOfId(animations, id, 1) > 0

\* Map.set: an existing key keeps its place in the iteration order.
MapSet(anims, entry) ==
  LET i == IndexOfId(anims, entry.id, 1)
  IN  IF i > 0 THEN [anims EXCEPT ![i] = entry] ELSE Append(anims, entry)

\* A delete that drops the oldest entry when the key is absent.
MapDeleteOrOldest(anims, id) ==
  IF \E k \in 1..Len(anims) : anims[k].id = id
  THEN SelectSeq(anims, LAMBDA a : a.id # id)
  ELSE IF anims = <<>> THEN anims ELSE Tail(anims)

\* Map.delete
MapDelete(anims, id) ==
  LET i == IndexOfId(anims, id, 1)
  IN  IF i = 0 THEN anims
      ELSE [k \in 1..(Len(anims) - 1) |-> IF k < i THEN anims[k] ELSE anims[k + 1]]

\* progress = (elapsed % duration) / duration, in quarter cycles (1 = 0.25).
Progress(elapsed, duration) ==
  LET r == JsMod(elapsed, duration)
  IN  IF r = NaN THEN NaN
      ELSE IF duration > 0 THEN (4 * r) \div duration
      ELSE -((4 * r) \div (-duration))

\* Math.sin(progress * Math.PI * 2), as a plain integer in {-1, 0, 1}.
Sin2Pi(progress) ==
  IF progress = NaN THEN NaN
  ELSE LET q == progress % 4
       IN  IF q = 1 THEN 1 ELSE IF q = 3 THEN -1 ELSE 0

\* config.amplitude || dflt
OrDefault(value, dflt) == IF value = 0 \/ value = NaN THEN dflt ELSE value

DefaultFloatAmplitude  == Unit
DefaultSpeed           == Unit
DefaultPulseAmplitude  == (2 * Unit) \div 10
DefaultGlowAmplitude   == (3 * Unit) \div 10
DefaultBounceAmplitude == 2 * Unit

UpdateFloatAnimation(node, originalPosition, config, progress) ==
  LET amplitude == OrDefault(config.amplitude, DefaultFloatAmplitude)
      offset    == NumMul(amplitude, Sin2Pi(progress))
  IN  [node EXCEPT !.position = AddY(originalPosition, offset)]

\* A rotation that starts over with every cycle of the duration.
UpdateRotateWrapping(node, originalRotation, config, elapsed) ==
  LET speed == OrDefault(config.speed, DefaultSpeed)
  IN  [node EXCEPT !.rotation =
         AddY(originalRotation, NumMul(speed, JsMod(elapsed, config.duration)))]

UpdateRotateAnimation(node, originalRotation, config, elapsed) ==
  LET speed == OrDefault(config.speed, DefaultSpeed)
  IN  [node EXCEPT !.rotation = AddY(originalRotation, NumMul(speed, elapsed))]

UpdatePulseAnimation(node, originalScale, config, progress) ==
  LET amplitude == OrDefault(config.amplitude, DefaultPulseAmplitude)
      scale     == NumAdd(Unit, NumMul(amplitude, Sin2Pi(progress)))
  IN  [node EXCEPT !.scale = MultiplyScalar(originalScale, scale)]

UpdateGlowAnimation(name, node, hasEmissive, originalEmissive, config, progress) ==
  IF ~IsPhongMesh(name) \/ ~hasEmissive THEN node
  ELSE LET amplitude == OrDefault(config.amplitude, DefaultGlowAmplitude)
           \* intensity * amplitude with intensity = (sin + 1) * 0.5
           factor == IF Sin2Pi(progress) = NaN THEN NaN
                     ELSE ((Sin2Pi(progress) + 1) * amplitude) \div 2
       IN  [node EXCEPT !.emissive = MultiplyScalar(originalEmissive, factor)]

\* A bounce with one arc per cycle: 4 * progress * (1 - progress) * amplitude.
UpdateBounceSingleArc(node, originalPosition, config, progress) ==
  LET amplitude == OrDefault(config.amplitude, DefaultBounceAmplitude)
      height    == IF progress = NaN THEN NaN
                   ELSE (progress * (4 - progress) * amplitude) \div 4
  IN  [node EXCEPT !.position = AddY(originalPosition, height)]

UpdateBounceAnimation(node, originalPosition, config, progress) ==
  LET amplitude == OrDefault(config.amplitude, DefaultBounceAmplitude)
      \* bounceProgress = progress * 2, kept in quarters: b2 / 4
      b2     == IF progress = NaN THEN NaN ELSE 2 * progress
      bounce == IF b2 = NaN THEN NaN ELSE IF b2 > 4 THEN 8 - b2 ELSE b2
      \* 4 * b * (1 - b) * amplitude with b = bounce / 4
      height == IF bounce = NaN THEN NaN
                ELSE (bounce * (4 - bounce) * amplitude) \div 4
  IN  [node EXCEPT !.position = AddY(originalPosition, height)]

\* updateAnimation: the node as one instance leaves it.
UpdateAnimation(node, anim, progress, elapsed) ==
  CASE anim.config.type = "float" ->
         UpdateFloatAnimation(node, anim.originalPosition, anim.config, progress)
    [] anim.config.type = "rotate" ->
         UpdateRotateAnimation(node, anim.originalRotation, anim.config, elapsed)
    [] anim.config.type = "pulse" ->
         UpdatePulseAnimation(node, anim.originalScale, anim.config, progress)
    [] anim.config.type = "glow" ->
         UpdateGlowAnimation(anim.object, node, anim.hasEmissive,
                             anim.originalEmissive, anim.config, progress)
    [] anim.config.type = "bounce" ->
         UpdateBounceAnimation(node, anim.originalPosition, anim.config, progress)
    [] OTHER -> node

\* An update() that stops animating a loop:false instance after one cycle.
UpdateOneCycleOnly(ns, anim, currentTime) ==
  IF ~anim.isActive THEN ns
  ELSE LET elapsed  == currentTime - anim.startTime
           progress == Progress(elapsed, anim.config.duration)
       IN  IF ~anim.config.loop /\ elapsed >= anim.config.duration THEN ns
           ELSE [ns EXCEPT ![anim.object] = UpdateAnimation(@, anim, progress, elapsed)]

\* An update() that puts the node of a paused instance back at its baseline.
UpdateOneResettingPaused(ns, anim, currentTime) ==
  IF ~anim.isActive
  THEN [ns EXCEPT ![anim.object].position = anim.originalPosition,
                  ![anim.object].rotation = anim.originalRotation,
                  ![anim.object].scale    = anim.originalScale]
  ELSE LET elapsed  == currentTime - anim.startTime
           progress == Progress(elapsed, anim.config.duration)
       IN  [ns EXCEPT ![anim.object] = UpdateAnimation(@, anim, progress, elapsed)]

\* What one iteration of the loop of update() does for one instance.
UpdateOne(ns, anim, currentTime) ==
  IF ~anim.isActive THEN ns
  ELSE LET elapsed  == currentTime - anim.startTime
           progress == Progress(elapsed, anim.config.duration)
       IN  [ns EXCEPT ![anim.object] = UpdateAnimation(@, anim, progress, elapsed)]

\* A loop in which the instance earlier in the Map's order is applied last.
RECURSIVE UpdateLoopEarlierWins(_, _, _, _)
UpdateLoopEarlierWins(anims, i, ns, currentTime) ==
  IF i > Len(anims) THEN ns
  ELSE UpdateOne(UpdateLoopEarlierWins(anims, i + 1, ns, currentTime), anims[i],
                 currentTime)

\* The loop of update() over the instances i.., in the Map's iteration order.
RECURSIVE UpdateLoop(_, _, _, _)
UpdateLoop(anims, i, ns, currentTime) ==
  IF i > Len(anims) THEN ns
  ELSE UpdateLoop(anims, i + 1, UpdateOne(ns, anims[i], currentTime), currentTime)

\* The number of update() callbacks in a queue of frame callbacks.
PendingTicks(queue) == Cardinality({k \in 1..Len(queue) : queue[k] = "anim"})

\* start(): does nothing when running; else marks the loop running and calls
\* update(), which applies every active instance and requests the next frame.
Start(anims, ns, running, queue, currentTime) ==
  IF running THEN [nodes |-> ns, isRunning |-> TRUE, rafQueue |-> queue]
  ELSE [nodes |-> UpdateLoop(anims, 1, ns, currentTime), isRunning |-> TRUE,
        rafQueue |-> Append(queue, "anim")]

\* The node attributes an animation baseline covers.
Attrs(n) ==
  [position |-> nodes[n].position, rotation |-> nodes[n].rotation,
   scale |-> nodes[n].scale, emissive |-> nodes[n].emissive]

NoAttrs == [position |-> Vec(0, 0, 0), rotation |-> Vec(0, 0, 0),
            scale |-> Vec(0, 0, 0), emissive |-> [r |-> 0, g |-> 0, b |-> 0]]

NoSnap == [valid |-> FALSE, object |-> NoNode, type |-> "none", attrs |-> NoAttrs]

\* The record of the last operation: its kind, for a removal the registration
\* snapshot of the removed id and the node's attributes just before the removal.
Op(op, snap, before) == [op |-> op, snap |-> snap, before |-> before]

NoOp == Op("call", NoSnap, NoAttrs)

\* No callback of a frame is in progress: event handlers and timers run between
\* frames, never between two callbacks of one frame.
Idle == frameQueue = <<>>

\* A capture of the emissive colour from every mesh, whatever its material.
CapturesEmissiveOfMesh(object) == IsMesh(object)

\* addAnimation clones material.emissive only from a Mesh with a
\* MeshPhongMaterial; originalEmissive is undefined otherwise.
CapturesEmissive(object) == IsPhongMesh(object)

AddAnimation(id, object, config) ==
  LET animation ==
        [id |-> id, object |-> object, config |-> config,
         startTime |-> now, isActive |-> config.autoStart,
         originalPosition |-> nodes[object].position,
         originalRotation |-> nodes[object].rotation,
         originalScale    |-> nodes[object].scale,
         hasEmissive      |-> CapturesEmissive(object),
         originalEmissive |-> nodes[object].emissive]
      anims  == MapSet(animations, animation)
      starts == ~isRunning /\ animation.isActive
      res    == IF starts THEN Start(anims, nodes, isRunning, rafQueue, now)
                ELSE [nodes |-> nodes, isRunning |-> isRunning, rafQueue |-> rafQueue]
  IN  /\ Idle
      /\ HasAnimation(id) \/ Len(animations) < MaxAnimations
      /\ registrations < MaxRegistrations
      /\ registrations' = registrations + 1
      /\ starts => PendingTicks(rafQueue) < MaxPending
      /\ animations' = anims
      /\ nodes' = res.nodes
      /\ isRunning' = res.isRunning
      /\ rafQueue' = res.rafQueue
      /\ regSnap' = [regSnap EXCEPT ![id] =
                       [valid |-> TRUE, object |-> object, type |-> config.type,
                        attrs |-> Attrs(object)]]
      /\ last' = NoOp
      /\ UNCHANGED <<uiVars, mediaVars, now, frameQueue, frameLog, animationId, interVars, perfVars>>

\* A removal that forgets to put the position back.
RestoreWithoutPosition(node, anim) ==
  [node EXCEPT !.rotation = anim.originalRotation,
               !.scale    = anim.originalScale,
               !.emissive = IF anim.hasEmissive /\ IsPhongMesh(anim.object)
                            THEN anim.originalEmissive ELSE @]

\* The restore of removeAnimation for one instance.
Restore(node, anim) ==
  [node EXCEPT !.position = anim.originalPosition,
               !.rotation = anim.originalRotation,
               !.scale    = anim.originalScale,
               !.emissive = IF anim.hasEmissive /\ IsPhongMesh(anim.object)
                            THEN anim.originalEmissive ELSE @]

\* A removal that stops the loop when no active instance remains.
RunningAfterRemoveIfNoneActive(anims, running) ==
  IF \A k \in 1..Len(anims) : ~anims[k].isActive THEN FALSE ELSE running

\* removeAnimation: if (this.animations.size === 0) this.stop()
RunningAfterRemove(anims, running) ==
  IF Len(anims) = 0 THEN FALSE ELSE running

RemoveAnimation(id) ==
  LET i     == IndexOfId(animations, id, 1)
      anims == MapDelete(animations, id)
  IN  /\ Idle
      /\ animations' = anims
      /\ nodes' = IF i = 0 THEN nodes
                  ELSE [nodes EXCEPT ![animations[i].object] = Restore(@, animations[i])]
      /\ isRunning' = RunningAfterRemove(anims, isRunning)
      /\ regSnap' = [regSnap EXCEPT ![id] = NoSnap]
      /\ last' = Op("remove", regSnap[id],
                     IF i = 0 THEN NoAttrs ELSE Attrs(animations[i].object))
      /\ UNCHANGED registrations
      /\ UNCHANGED <<uiVars, mediaVars, now, frameVars, interVars, perfVars>>

PlayAnimation(id) ==
  LET i      == IndexOfId(animations, id, 1)
      anims  == IF i = 0 THEN animations
                ELSE [animations EXCEPT ![i].isActive = TRUE, ![i].startTime = now]
      starts == i > 0 /\ ~isRunning
      res    == IF starts THEN Start(anims, nodes, isRunning, rafQueue, now)
                ELSE [nodes |-> nodes, isRunning |-> isRunning, rafQueue |-> rafQueue]
  IN  /\ Idle
      /\ starts => PendingTicks(rafQueue) < MaxPending
      /\ animations' = anims
      /\ nodes' = res.nodes
      /\ isRunning' = res.isRunning
      /\ rafQueue' = res.rafQueue
      /\ last' = NoOp
      /\ UNCHANGED <<uiVars, mediaVars, now, frameQueue, frameLog, animationId, interVars, perfVars,
                     regSnap, registrations>>

PauseAnimation(id) ==
  LET i == IndexOfId(animations, id, 1)
  IN  /\ Idle
      /\ animations' = IF i = 0 THEN animations
                       ELSE [animations EXCEPT ![i].isActive = FALSE]
      /\ last' = NoOp
      /\ UNCHANGED <<uiVars, mediaVars, nodes, isRunning, now, frameVars, interVars, perfVars, regSnap,
                     registrations>>

\* isAnimationActive: animation ? animation.isActive : false
IsAnimationActive(id) ==
  LET i == IndexOfId(animations, id, 1)
  IN  IF i = 0 THEN FALSE ELSE animations[i].isActive

\* The clock of the AnimationManager advances in real time.
\* (The history of the last operation ends when time passes.)
AdvanceClock(maxTime) ==
  /\ now < maxTime
  /\ now' = now + 1
  /\ last' = NoOp
  /\ UNCHANGED <<uiVars, mediaVars, nodes, animations, isRunning, frameVars, interVars, perfVars,
                 registrations, regSnap>>

\* The browser starts a frame: the callbacks requested so far are the frame's.
\* A frame that renders the scene starts only while fewer than maxFrames frames
\* were rendered since the last sample.
BeginFrame(maxFrames) ==
  /\ Idle
  /\ rafQueue # <<>>
  /\ (\E k \in 1..Len(rafQueue) : rafQueue[k] = "scene") => framesRendered < maxFrames
  /\ frameQueue' = rafQueue
  /\ rafQueue' = <<>>
  /\ frameLog' = <<>>
  /\ UNCHANGED <<uiVars, mediaVars, nodes, animVars, animationId, interVars, perfVars, ghostVars>>

\* A frame callback that does not look at isRunning.
AnimationFrameIgnoringStop ==
  /\ frameQueue # <<>>
  /\ Head(frameQueue) = "anim"
  /\ frameQueue' = Tail(frameQueue)
  /\ nodes' = UpdateLoop(animations, 1, nodes, now)
  /\ rafQueue' = Append(rafQueue, "anim")
  /\ frameLog' = Append(frameLog, "tick")
  /\ last' = Op("tick", NoSnap, NoAttrs)
  /\ UNCHANGED <<uiVars, mediaVars, animVars, animationId, interVars, perfVars, regSnap, registrations>>

\* The frame callback of the AnimationManager: update().
AnimationFrame ==
  /\ frameQueue # <<>>
  /\ Head(frameQueue) = "anim"
  /\ frameQueue' = Tail(frameQueue)
  /\ IF isRunning
     THEN /\ nodes' = UpdateLoop(animations, 1, nodes, now)
          /\ rafQueue' = Append(rafQueue, "anim")
          /\ frameLog' = Append(frameLog, "tick")
          /\ last' = Op("tick", NoSnap, NoAttrs)
     ELSE /\ UNCHANGED <<nodes, rafQueue>>
          /\ frameLog' = Append(frameLog, "cancelled")
          /\ last' = NoOp
  /\ UNCHANGED <<uiVars, mediaVars, animVars, animationId, interVars, perfVars, regSnap, registrations>>

----------------------------------------------------------------------------
(* InteractionSystem *)


NoEntity == "none"

\* The InteractableObject values the callers register: the node, the interaction
\* distance and which of the optional hover callbacks are supplied.
Entities == {"E1", "E2", "E3"}

EntityObject(e) ==
  CASE e = "E1" -> "sword" [] e = "E2" -> "blade" [] e = "E3" -> "lantern"
    [] OTHER -> NoNode

InteractionDistance(e) ==
  CASE e = "E1" -> 1 [] e = "E2" -> 2 [] e = "E3" -> 3 [] OTHER -> 0

HasOnHover(e) == e \in {"E2", "E3"}

HasOnHoverEnd(e) == e \in {"E2", "E3"}

\* isChildOf: child is parent or parent is one of child's ancestors.
RECURSIVE IsChildOf(_, _)
IsChildOf(child, parent) ==
  IF child = parent THEN TRUE
  ELSE IF child = NoNode \/ Parent(child) = NoNode THEN FALSE
  ELSE IsChildOf(Parent(child), parent)

\* Array.find: the first registered entity whose node is the hit node or an
\* ancestor of it.
RECURSIVE FindEntity(_, _, _)
FindEntity(list, object, i) ==
  IF i > Len(list) THEN NoEntity
  ELSE IF IsChildOf(object, EntityObject(list[i])) THEN list[i]
  ELSE FindEntity(list, object, i + 1)

\* A resolver that gives up at the first hit that maps to an entity.
RECURSIVE ResolveStoppingAtFirstEntity(_, _, _)
ResolveStoppingAtFirstEntity(list, hits, k) ==
  IF k > Len(hits) THEN NoEntity
  ELSE LET e == FindEntity(list, hits[k].object, 1)
       IN  IF e # NoEntity
           THEN IF hits[k].distance <= InteractionDistance(e) THEN e ELSE NoEntity
           ELSE ResolveStoppingAtFirstEntity(list, hits, k + 1)

\* A resolver that forgets the distance check.
RECURSIVE ResolveIgnoringDistance(_, _, _)
ResolveIgnoringDistance(list, hits, k) ==
  IF k > Len(hits) THEN NoEntity
  ELSE LET e == FindEntity(list, hits[k].object, 1)
       IN  IF e # NoEntity THEN e
           ELSE ResolveIgnoringDistance(list, hits, k + 1)

\* The loop of getIntersectedInteractableObject over the intersections k..,
\* which the raycaster returns nearest first.
RECURSIVE ResolveFrom(_, _, _)
ResolveFrom(list, hits, k) ==
  IF k > Len(hits) THEN NoEntity
  ELSE LET e == FindEntity(list, hits[k].object, 1)
       IN  IF e # NoEntity /\ hits[k].distance <= InteractionDistance(e) THEN e
           ELSE ResolveFrom(list, hits, k + 1)

GetIntersectedInteractableObject(list, hits) == ResolveFrom(list, hits, 1)

\* What raycaster.intersectObjects(registered nodes, recursive) can return: hits
\* on meshes that are a registered node or below one, nearest first (the hits
\* explored lie at pairwise different distances).
Hit(object, distance) == [object |-> object, distance |-> distance]

HittableMeshes(list) ==
  {m \in Nodes : IsMesh(m) /\ \E i \in 1..Len(list) : IsChildOf(m, EntityObject(list[i]))}

RayHits(list) ==
  {h \in UNION {[1..n -> {Hit(m, d) : m \in HittableMeshes(list), d \in 1..MaxDistance}]
                  : n \in 0..MaxHits} :
     \A k \in 1..(Len(h) - 1) : h[k].distance < h[k + 1].distance}

Call(cb, entity, hovered) == [cb |-> cb, entity |-> entity, hovered |-> hovered]

\* op: the call; arg: the entity passed to it; locked: whether the handler got
\* past its pointer-lock check; hits, target: the ray result and the resolved
\* entity; prev: the hovered entity before the call; calls: the callbacks fired,
\* each with the hovered entity stored while it ran.
Event(op, arg, locked, hits, target, prev, cbs) ==
  [op |-> op, arg |-> arg, locked |-> locked, hits |-> hits, target |-> target,
   prev |-> prev, calls |-> cbs]

NoEvent == Event("none", NoEntity, FALSE, <<>>, NoEntity, NoEntity, <<>>)

\* Index of the first occurrence of e in the list, 0 when absent (indexOf + 1).
RECURSIVE IndexOfEntity(_, _, _)
IndexOfEntity(list, e, i) ==
  IF i > Len(list) THEN 0
  ELSE IF list[i] = e THEN i
  ELSE IndexOfEntity(list, e, i + 1)

\* splice(index, 1)
Splice(list, i) ==
  [k \in 1..(Len(list) - 1) |-> IF k < i THEN list[k] ELSE list[k + 1]]

AddInteractableObject(e) ==
  /\ Idle
  /\ Len(interactableObjects) < MaxEntities
  /\ interactableObjects' = Append(interactableObjects, e)
  /\ event' = Event("add", e, FALSE, <<>>, NoEntity, currentHoveredObject, <<>>)
  /\ UNCHANGED <<uiVars, mediaVars, nodes, animVars, frameVars, currentHoveredObject, pointerLocked,
                 perfVars, ghostVars>>

RemoveInteractableObject(e) ==
  LET index == IndexOfEntity(interactableObjects, e, 1)
  IN  /\ Idle
      /\ interactableObjects' =
           IF index > 0 THEN Splice(interactableObjects, index) ELSE interactableObjects
      /\ currentHoveredObject' =
           IF index > 0 /\ currentHoveredObject = e THEN NoEntity
           ELSE currentHoveredObject
      /\ event' = Event("remove", e, index > 0, <<>>, NoEntity, currentHoveredObject, <<>>)
      /\ UNCHANGED <<uiVars, mediaVars, nodes, animVars, frameVars, pointerLocked, perfVars, ghostVars>>

\* A handler that starts the new hover before it ends the previous one.
HoverCallsBeginFirst(prev, target) ==
  (IF target # NoEntity /\ HasOnHover(target)
   THEN <<Call("onHover", target, target)>> ELSE <<>>)
  \o (IF prev # NoEntity /\ HasOnHoverEnd(prev)
      THEN <<Call("onHoverEnd", prev, prev)>> ELSE <<>>)

\* The hover callbacks of onCanvasMouseMove, in the order it fires them.
HoverCalls(prev, target) ==
  (IF prev # NoEntity /\ HasOnHoverEnd(prev)
   THEN <<Call("onHoverEnd", prev, prev)>> ELSE <<>>)
  \o (IF target # NoEntity /\ HasOnHover(target)
      THEN <<Call("onHover", target, target)>> ELSE <<>>)

\* A pointer-move handler without the pointer-lock check.
OnCanvasMouseMoveUngated(hits) ==
  LET target == GetIntersectedInteractableObject(interactableObjects, hits)
      prev   == currentHoveredObject
  IN  /\ Idle
      /\ IF target # prev
         THEN /\ currentHoveredObject' = target
              /\ event' = Event("mousemove", NoEntity, pointerLocked, hits, target, prev,
                                HoverCalls(prev, target))
         ELSE /\ event' = Event("mousemove", NoEntity, pointerLocked, hits, target, prev,
                                <<>>)
              /\ UNCHANGED currentHoveredObject
      /\ UNCHANGED <<uiVars, mediaVars, nodes, animVars, frameVars, interactableObjects, pointerLocked,
                     perfVars, ghostVars>>

OnCanvasMouseMove(hits) ==
  LET target == GetIntersectedInteractableObject(interactableObjects, hits)
      prev   == currentHoveredObject
  IN  /\ Idle
      /\ IF ~pointerLocked
         THEN /\ event' = Event("mousemove", NoEntity, FALSE, <<>>, NoEntity, prev, <<>>)
              /\ UNCHANGED currentHoveredObject
         ELSE IF target # prev
         THEN /\ currentHoveredObject' = target
              /\ event' = Event("mousemove", NoEntity, TRUE, hits, target, prev,
                                HoverCalls(prev, target))
         ELSE /\ event' = Event("mousemove", NoEntity, TRUE, hits, target, prev, <<>>)
              /\ UNCHANGED currentHoveredObject
      /\ UNCHANGED <<uiVars, mediaVars, nodes, animVars, frameVars, interactableObjects, pointerLocked,
                     perfVars, ghostVars>>

\* A handler that activates the entity stored as hovered.
ClickCallsOfHovered(target, prev) ==
  IF prev # NoEntity THEN <<Call("onInteract", prev, prev)>> ELSE <<>>

\* The callback of onCanvasClick: onInteract of the entity the ray resolves.
ClickCalls(target, prev) ==
  IF target # NoEntity THEN <<Call("onInteract", target, prev)>> ELSE <<>>

OnCanvasClick(hits) ==
  LET target == GetIntersectedInteractableObject(interactableObjects, hits)
      prev   == currentHoveredObject
  IN  /\ Idle
      /\ event' =
           IF ~pointerLocked
           THEN Event("click", NoEntity, FALSE, <<>>, NoEntity, prev, <<>>)
           ELSE Event("click", NoEntity, TRUE, hits, target, prev,
                      ClickCalls(target, prev))
      /\ UNCHANGED <<uiVars, mediaVars, nodes, animVars, frameVars, interactableObjects,
                     currentHoveredObject, pointerLocked, perfVars, ghostVars>>

\* update(), called once per rendered frame, with the camera in a pose in which
\* the centre ray gives hits: its body is empty, nothing is re-evaluated.
InteractionUpdate(hits) ==
  /\ Idle
  /\ event' = Event("update", NoEntity, pointerLocked, hits,
                    GetIntersectedInteractableObject(interactableObjects, hits),
                    currentHoveredObject, <<>>)
  /\ UNCHANGED <<uiVars, mediaVars, nodes, animVars, frameVars, interactableObjects,
                 currentHoveredObject, pointerLocked, perfVars, ghostVars>>

\* A dispose that empties the registry and forgets the stored hover.
DisposeKeepingHover ==
  /\ Idle
  /\ interactableObjects' = <<>>
  /\ event' = Event("dispose", NoEntity, FALSE, <<>>, NoEntity, currentHoveredObject, <<>>)
  /\ UNCHANGED <<uiVars, mediaVars, nodes, animVars, frameVars, currentHoveredObject, pointerLocked,
                 perfVars, ghostVars>>

\* dispose(): the registry is emptied and the hover cleared. (The listeners it
\* tries to remove stay attached, because bind() makes new functions.)
Dispose ==
  /\ Idle
  /\ interactableObjects' = <<>>
  /\ currentHoveredObject' = NoEntity
  /\ event' = Event("dispose", NoEntity, FALSE, <<>>, NoEntity, currentHoveredObject, <<>>)
  /\ UNCHANGED <<uiVars, mediaVars, nodes, animVars, frameVars, pointerLocked, perfVars, ghostVars>>

\* The browser grants or releases the pointer lock of the canvas.
PointerLockChange ==
  /\ Idle
  /\ pointerLocked' = ~pointerLocked
  /\ UNCHANGED <<uiVars, mediaVars, nodes, animVars, frameVars, interactableObjects,
                 currentHoveredObject, event, perfVars, ghostVars>>

----------------------------------------------------------------------------
(* PerformanceOptimizer *)


\* The gaps, in ms, at which the browser delivers the 1-second interval timer:
\* early, on time and late.
TimerGaps == {500, 1000, 2000}

SampleWindowMs == 1000
HighFPS == 50
MediumFPS == 30
MediumShininessCap == 50
DefaultShininess == 100

\* The bundles of applyLowQualitySettings, applyMediumQualitySettings and
\* applyHighQualitySettings; fogFar = 0 stands for scene.fog = null.
LowQuality ==
  [shadowMapType |-> "BasicShadowMap", shadowMapSize |-> 512,
   maxShadowDistance |-> 50, fogNear |-> 0, fogFar |-> 0]

MediumQuality ==
  [shadowMapType |-> "PCFShadowMap", shadowMapSize |-> 1024,
   maxShadowDistance |-> 75, fogNear |-> 50, fogFar |-> 150]

HighQuality ==
  [shadowMapType |-> "PCFSoftShadowMap", shadowMapSize |-> 2048,
   maxShadowDistance |-> 100, fogNear |-> 50, fogFar |-> 200]

\* A classification without the "low" tier.
LevelOfNeverLow(fps) == IF fps >= HighFPS THEN "high" ELSE "medium"

\* The tier of an average frame rate.
LevelOf(fps) ==
  IF fps >= HighFPS THEN "high" ELSE IF fps >= MediumFPS THEN "medium" ELSE "low"

\* adjustQualitySettings: the bundle of the current level.
\* A "low" bundle that degrades the shadow map from its current size.
ApplyLowQualityHalving(q) ==
  [q EXCEPT !.shadowMapType = "BasicShadowMap",
            !.shadowMapSize = q.shadowMapSize \div 2,
            !.maxShadowDistance = LowQuality.maxShadowDistance,
            !.fogNear = 0, !.fogFar = 0]

\* apply*QualitySettings: each assigns every value of its bundle.
ApplyLowQualitySettings(q) ==
  [q EXCEPT !.shadowMapType = LowQuality.shadowMapType,
            !.shadowMapSize = LowQuality.shadowMapSize,
            !.maxShadowDistance = LowQuality.maxShadowDistance,
            !.fogNear = LowQuality.fogNear, !.fogFar = LowQuality.fogFar]

ApplyMediumQualitySettings(q) ==
  [q EXCEPT !.shadowMapType = MediumQuality.shadowMapType,
            !.shadowMapSize = MediumQuality.shadowMapSize,
            !.maxShadowDistance = MediumQuality.maxShadowDistance,
            !.fogNear = MediumQuality.fogNear, !.fogFar = MediumQuality.fogFar]

ApplyHighQualitySettings(q) ==
  [q EXCEPT !.shadowMapType = HighQuality.shadowMapType,
            !.shadowMapSize = HighQuality.shadowMapSize,
            !.maxShadowDistance = HighQuality.maxShadowDistance,
            !.fogNear = HighQuality.fogNear, !.fogFar = HighQuality.fogFar]

\* adjustQualitySettings: the switch on performanceLevel.
AdjustQualitySettings(q, level) ==
  CASE level = "low" -> ApplyLowQualitySettings(q)
    [] level = "medium" -> ApplyMediumQualitySettings(q)
    [] level = "high" -> ApplyHighQualitySettings(q)
    [] OTHER -> q

\* The interval callback: updatePerformanceLevel, then adjustQualitySettings.
\* gap is the time since the previous callback. averageFPS keeps the integer
\* part of the quotient, which decides the comparisons with 50 and 30.
UpdatePerformanceMonitoring(gap) ==
  LET deltaTime == sinceSample + gap
      sampled   == deltaTime >= SampleWindowMs
      fps       == IF sampled THEN (frameCount * 1000) \div deltaTime ELSE averageFPS
      level     == IF sampled THEN LevelOf(fps) ELSE performanceLevel
  IN  /\ Idle
      /\ averageFPS' = fps
      /\ performanceLevel' = level
      /\ frameCount' = (IF sampled THEN 0 ELSE frameCount) + 1
      /\ sinceSample' = IF sampled THEN 0 ELSE deltaTime
      /\ quality' = AdjustQualitySettings(quality, level)
      /\ framesRendered' = IF sampled THEN 0 ELSE framesRendered
      /\ sample' = IF sampled
                   THEN [frames |-> framesRendered, deltaTime |-> deltaTime,
                         previous |-> performanceLevel]
                   ELSE sample
      /\ last' = IF sampled THEN Op("sample", NoSnap, NoAttrs) ELSE NoOp
      /\ UNCHANGED <<uiVars, mediaVars, animVars, frameVars, interVars, optimizationSettings,
                     lodObjects, camera, registrations, regSnap>>

\* optimizeMaterials(): caps the shininess of Phong materials by tier.
OptimizeMaterials(ns, level) ==
  [n \in Nodes |->
     IF IsPhongMesh(n) /\ level = "low"
     THEN [ns[n] EXCEPT !.shininess = IF @ < 30 THEN @ ELSE 30]
     ELSE IF IsPhongMesh(n) /\ level = "medium"
     THEN [ns[n] EXCEPT !.shininess = IF @ < 60 THEN @ ELSE 60]
     ELSE ns[n]]

\* An interval callback that also runs optimizeMaterials().
TimerCallbackOptimizingMaterials(gap) ==
  /\ UpdatePerformanceMonitoring(gap)
  /\ nodes' = OptimizeMaterials(nodes, performanceLevel')

\* The callback writes no scene node.
TimerCallback(gap) ==
  /\ UpdatePerformanceMonitoring(gap)
  /\ UNCHANGED nodes

\* LODConfig; castShadow = TRUE also stands for an absent castShadow, and
\* originalShininess = 0 for an absent or zero one.
LODConfig(near, medium, far, castShadow, originalShininess) ==
  [nearDistance |-> near, mediumDistance |-> medium, farDistance |-> far,
   castShadow |-> castShadow, originalShininess |-> originalShininess]

LODRequests ==
  { [object |-> "blade",   config |-> LODConfig(Unit, 2 * Unit, 4 * Unit, TRUE, 0)],
    [object |-> "sword",   config |-> LODConfig(Unit, Unit, 2 * Unit, FALSE, 80)],
    [object |-> "lantern", config |-> LODConfig(Unit, 2 * Unit, 4 * Unit, TRUE, 0)] }

CameraHeights == {0, Unit, 3 * Unit, 5 * Unit}

\* Index of the entry of object in the LOD map, 0 when there is none.
RECURSIVE IndexOfObject(_, _, _)
IndexOfObject(lods, object, i) ==
  IF i > Len(lods) THEN 0
  ELSE IF lods[i].object = object THEN i
  ELSE IndexOfObject(lods, object, i + 1)

AddLODObject(object, config) ==
  LET i     == IndexOfObject(lodObjects, object, 1)
      \* seen is history, not part of the Map: the fidelity the node has now
      entry == [object |-> object, config |-> config,
                seen |-> [shininess  |-> nodes[object].shininess,
                          castShadow |-> nodes[object].castShadow]]
  IN  /\ Idle
      /\ lodObjects' = IF i > 0 THEN [lodObjects EXCEPT ![i] = entry]
                       ELSE Append(lodObjects, entry)
      /\ last' = NoOp
      /\ UNCHANGED <<uiVars, mediaVars, nodes, animVars, frameVars, interVars, frameCount, sinceSample,
                     averageFPS, performanceLevel, quality, optimizationSettings,
                     camera, framesRendered, sample, registrations, regSnap>>

\* setOptimizationSettings with the two switches of the per-frame passes.
SetOptimizationSettings(settings) ==
  /\ Idle
  /\ optimizationSettings' = settings
  /\ last' = NoOp
  /\ UNCHANGED <<uiVars, mediaVars, nodes, animVars, frameVars, interVars, frameCount, sinceSample,
                 averageFPS, performanceLevel, quality, lodObjects, camera,
                 framesRendered, sample, registrations, regSnap>>

\* The first-person controls move and turn the camera: its height and the set
\* of nodes whose bounding sphere meets its frustum.
MoveCamera(y, inFrustum) ==
  /\ Idle
  /\ camera' = [y |-> y, inFrustum |-> inFrustum]
  /\ last' = NoOp
  /\ UNCHANGED <<uiVars, mediaVars, nodes, animVars, frameVars, interVars, frameCount, sinceSample,
                 averageFPS, performanceLevel, quality, optimizationSettings,
                 lodObjects, framesRendered, sample, registrations, regSnap>>

\* cameraPosition.distanceTo(object.position), along the one axis of the model.
DistanceTo(cam, position) ==
  IF position.y = NaN THEN NaN ELSE Abs(cam.y - position.y)

\* a > b of JavaScript: false when a is NaN.
Greater(a, b) == a # NaN /\ a > b

\* object.traverse: the node and its descendants.
Subtree(object) == {m \in Nodes : IsChildOf(m, object)}

Min(a, b) == IF a < b THEN a ELSE b

ApplyMediumLOD(ns, object) ==
  [m \in Nodes |->
     IF m \in Subtree(object) /\ IsMesh(m)
     THEN [ns[m] EXCEPT !.shininess = IF IsPhongMesh(m)
                                      THEN Min(@, MediumShininessCap) ELSE @,
                        !.castShadow = FALSE]
     ELSE ns[m]]

ApplyHighLOD(ns, object, config) ==
  [m \in Nodes |->
     IF m \in Subtree(object) /\ IsMesh(m)
     THEN [ns[m] EXCEPT !.shininess = IF IsPhongMesh(m)
                                      THEN OrDefault(config.originalShininess,
                                                     DefaultShininess)
                                      ELSE @,
                        !.castShadow = config.castShadow]
     ELSE ns[m]]

\* A band selection that puts a distance equal to a threshold in the farther band.
UpdateLODEntryInclusive(ns, entry, cam) ==
  LET distance == DistanceTo(cam, ns[entry.object].position)
  IN  IF distance # NaN /\ distance >= entry.config.farDistance
      THEN [ns EXCEPT ![entry.object].visible = FALSE]
      ELSE IF distance # NaN /\ distance >= entry.config.mediumDistance
      THEN ApplyMediumLOD([ns EXCEPT ![entry.object].visible = TRUE], entry.object)
      ELSE ApplyHighLOD([ns EXCEPT ![entry.object].visible = TRUE], entry.object,
                        entry.config)

\* One iteration of the loop of updateLOD.
UpdateLODEntry(ns, entry, cam) ==
  LET distance == DistanceTo(cam, ns[entry.object].position)
  IN  IF Greater(distance, entry.config.farDistance)
      THEN [ns EXCEPT ![entry.object].visible = FALSE]
      ELSE IF Greater(distance, entry.config.mediumDistance)
      THEN ApplyMediumLOD([ns EXCEPT ![entry.object].visible = TRUE], entry.object)
      ELSE ApplyHighLOD([ns EXCEPT ![entry.object].visible = TRUE], entry.object,
                        entry.config)

RECURSIVE UpdateLODFrom(_, _, _, _)
UpdateLODFrom(lods, i, ns, cam) ==
  IF i > Len(lods) THEN ns
  ELSE UpdateLODFrom(lods, i + 1, UpdateLODEntry(ns, lods[i], cam), cam)

UpdateLOD(settings, lods, ns, cam) ==
  IF ~settings.enableLOD THEN ns ELSE UpdateLODFrom(lods, 1, ns, cam)

\* A culling pass that applies the frustum test to every mesh, a mesh without
\* a bounding sphere included.
UpdateFrustumCullingEveryMesh(settings, ns, cam) ==
  IF ~settings.enableFrustumCulling THEN ns
  ELSE [m \in Nodes |->
          IF IsMesh(m) THEN [ns[m] EXCEPT !.visible = m \in cam.inFrustum]
          ELSE ns[m]]

\* The camera of the application is a PerspectiveCamera; every mesh with a
\* bounding sphere gets the result of the frustum test as its visibility.
UpdateFrustumCulling(settings, ns, cam) ==
  IF ~settings.enableFrustumCulling THEN ns
  ELSE [m \in Nodes |->
          IF IsMesh(m) /\ HasBoundingSphere(m)
          THEN [ns[m] EXCEPT !.visible = m \in cam.inFrustum]
          ELSE ns[m]]

\* An update() that culls first and applies the LOD afterwards.
UpdateCullingFirst(settings, lods, ns, cam) ==
  UpdateLOD(settings, lods, UpdateFrustumCulling(settings, ns, cam), cam)

\* update(): the LOD pass, then the frustum-culling pass.
Update(settings, lods, ns, cam) ==
  UpdateFrustumCulling(settings, UpdateLOD(settings, lods, ns, cam), cam)

\* A direct call of the public update().
OptimizerUpdate ==
  /\ Idle
  /\ nodes' = Update(optimizationSettings, lodObjects, nodes, camera)
  /\ last' = Op("update", NoSnap, NoAttrs)
  /\ UNCHANGED <<uiVars, mediaVars, animVars, frameVars, interVars, frameCount, sinceSample,
                 averageFPS, performanceLevel, quality, optimizationSettings,
                 lodObjects, camera, framesRendered, sample, registrations, regSnap>>

\* A direct call of the public updateLOD().
OptimizerUpdateLOD ==
  /\ Idle
  /\ nodes' = UpdateLOD(optimizationSettings, lodObjects, nodes, camera)
  /\ last' = Op("updateLOD", NoSnap, NoAttrs)
  /\ UNCHANGED <<uiVars, mediaVars, animVars, frameVars, interVars, frameCount, sinceSample,
                 averageFPS, performanceLevel, quality, optimizationSettings,
                 lodObjects, camera, framesRendered, sample, registrations, regSnap>>

\* The body of SceneManager's animate(): request the next frame, run the update
\* callbacks (of which only PerformanceOptimizer.update() changes the model's
\* state), render.
StartRenderLoop ==
  /\ Idle
  /\ ~animationId
  /\ animationId' = TRUE
  /\ rafQueue' = Append(rafQueue, "scene")
  /\ nodes' = Update(optimizationSettings, lodObjects, nodes, camera)
  /\ framesRendered' = framesRendered + 1
  /\ last' = Op("update", NoSnap, NoAttrs)
  /\ UNCHANGED <<uiVars, mediaVars, animVars, frameQueue, frameLog, interVars, frameCount, sinceSample,
                 averageFPS, performanceLevel, quality, optimizationSettings,
                 lodObjects, camera, sample, registrations, regSnap>>

\* The frame callback of the SceneManager.
SceneFrame ==
  /\ frameQueue # <<>>
  /\ Head(frameQueue) = "scene"
  /\ frameQueue' = Tail(frameQueue)
  /\ frameLog' = Append(frameLog, "update")
  /\ rafQueue' = Append(rafQueue, "scene")
  /\ nodes' = Update(optimizationSettings, lodObjects, nodes, camera)
  /\ framesRendered' = framesRendered + 1
  /\ last' = Op("update", NoSnap, NoAttrs)
  /\ UNCHANGED <<uiVars, mediaVars, animVars, animationId, interVars, frameCount, sinceSample,
                 averageFPS, performanceLevel, quality, optimizationSettings,
                 lodObjects, camera, sample, registrations, regSnap>>

----------------------------------------------------------------------------
(* Settings panel, help panel and the keyboard *)

Keys == {"Escape", "F1", "h"}

ShadowQualities == {"off", "low", "medium", "high"}

\* getDefaultSettings(): the graphics settings the model follows.
DefaultSettings == [shadowQuality |-> "medium", fogEnabled |-> TRUE]

UiEvent(name, key, before) == [name |-> name, key |-> key, before |-> before]

NoUiEvent == UiEvent("none", "none", FALSE)

\* The keydown listener of the SettingsPanel: ESC hides a visible panel.
SettingsPanelKeyDown(visible, key) ==
  IF key = "Escape" /\ visible THEN FALSE ELSE visible

\* The keydown listener of the HelpPanel: h toggles the help.
HelpPanelKeyDown(visible, key) ==
  IF key = "h" THEN ~visible ELSE visible

\* The keydown listener of the application: ESC toggles the settings panel,
\* F1 toggles the help (the result is <<settings panel, help panel>>).
AppKeyDown(visible, help, key) ==
  IF key = "Escape" THEN <<~visible, help>>
  ELSE IF key = "F1" THEN <<visible, ~help>>
  ELSE <<visible, help>>

\* A key press: the document's keydown listeners run in the order in which they
\* were added: SettingsPanel (constructed first), HelpPanel, then the
\* application's setupUIEventListeners.
KeyDown(key) ==
  LET v1  == SettingsPanelKeyDown(settingsVisible, key)
      h1  == HelpPanelKeyDown(helpVisible, key)
      res == AppKeyDown(v1, h1, key)
  IN  /\ Idle
      /\ settingsVisible' = res[1]
      /\ helpVisible' = res[2]
      /\ ui' = UiEvent("keydown", key, settingsVisible)
      /\ UNCHANGED <<mediaVars, nodes, animVars, frameVars, interVars, perfVars, gameSettings,
                     ghostVars>>

\* Click on the settings button (toggle) or on the panel's close button (hide).
SettingsToggleClick ==
  /\ Idle
  /\ settingsVisible' = ~settingsVisible
  /\ ui' = UiEvent("settings-toggle", "none", settingsVisible)
  /\ UNCHANGED <<mediaVars, nodes, animVars, frameVars, interVars, perfVars, helpVisible,
                 gameSettings, ghostVars>>

SettingsCloseClick ==
  /\ Idle
  /\ settingsVisible
  /\ settingsVisible' = FALSE
  /\ ui' = UiEvent("settings-close", "none", settingsVisible)
  /\ UNCHANGED <<mediaVars, nodes, animVars, frameVars, interVars, perfVars, helpVisible,
                 gameSettings, ghostVars>>

\* ChroniclesApp.applySettings, graphics part: fog on (50..200) or off, and the
\* shadow technique ("off" only disables the shadow map and keeps its type).
AppApplySettings(q, s) ==
  [q EXCEPT !.fogNear = IF s.fogEnabled THEN HighQuality.fogNear ELSE 0,
            !.fogFar = IF s.fogEnabled THEN HighQuality.fogFar ELSE 0,
            !.shadowMapType =
               CASE s.shadowQuality = "low" -> "BasicShadowMap"
                 [] s.shadowQuality = "medium" -> "PCFShadowMap"
                 [] s.shadowQuality = "high" -> "PCFSoftShadowMap"
                 [] OTHER -> q.shadowMapType]

\* Click on the panel's apply button: the panel reads its controls into its
\* settings and the application applies them.
ApplySettingsClick(shadowQuality, fogEnabled) ==
  LET s == [shadowQuality |-> shadowQuality, fogEnabled |-> fogEnabled]
  IN  /\ Idle
      /\ settingsVisible
      /\ gameSettings' = s
      /\ quality' = AppApplySettings(quality, s)
      /\ ui' = UiEvent("apply", "none", settingsVisible)
      /\ UNCHANGED <<mediaVars, nodes, animVars, frameVars, interVars, frameCount, sinceSample,
                     averageFPS, performanceLevel, optimizationSettings, lodObjects,
                     camera, framesRendered, sample, settingsVisible, helpVisible,
                     ghostVars>>

----------------------------------------------------------------------------
(* TextDisplayManager: the message element, its auto-hide timer and the
   delayed clears that hideMessage sets and never cancels *)

PoemDurationMs == 4000          \* showPoem(POEMS.flute, 4000)
DescriptionDelayMs == 4500      \* setTimeout(() => showDescription(...), 4500)
DescriptionDurationMs == 3000   \* showDescription(DESCRIPTIONS.flute, 3000)
FadeOutMs == 500                \* setTimeout(() => clearMessage(), 500)

\* The clock is observed at the multiples of the shortest timer delay.
ClockStep == FadeOutMs

NoMessage == [id |-> 0, shownAt |-> 0, duration |-> 0, hiding |-> FALSE]

\* The element created by the id-th showMessage call; hiding is set when
\* hideMessage starts its fade-out (opacity 0).
Message(id, at, duration) ==
  [id |-> id, shownAt |-> at, duration |-> duration, hiding |-> FALSE]

TextOp(op, removed) == [op |-> op, removed |-> removed]

NoTextOp == TextOp("none", NoMessage)

\* clearMessage(), element part: the element is removed only while the
\* container exists.
ClearMessage(msg, attached) == IF msg # NoMessage /\ attached THEN NoMessage ELSE msg

\* The element that a clearMessage() call takes off the screen.
Removed(msg, attached) == IF attached THEN msg ELSE NoMessage

\* showMessage(text, duration, style): clearMessage(), a new element, and the
\* auto-hide timer when duration > 0.
ShowMessageStep(duration, op) ==
  /\ messageCount' = messageCount + 1
  /\ currentMessage' = Message(messageCount + 1, textClock, duration)
  /\ hideTimeout' = IF duration > 0 THEN <<textClock + duration>> ELSE <<>>
  /\ textLast' = TextOp(op, Removed(currentMessage, container))
  /\ UNCHANGED <<textClock, container, clearTimers>>

\* hideMessage(): starts the fade-out of the current element, sets a delayed
\* clear that no field remembers, and cancels the auto-hide timer.
HideMessageStep(op) ==
  /\ IF currentMessage # NoMessage
     THEN /\ currentMessage' = [currentMessage EXCEPT !.hiding = TRUE]
          /\ clearTimers' = Append(clearTimers, textClock + FadeOutMs)
     ELSE UNCHANGED <<currentMessage, clearTimers>>
  /\ hideTimeout' = <<>>
  /\ textLast' = TextOp(op, NoMessage)
  /\ UNCHANGED <<textClock, container, descriptionTimers, messageCount>>

OtherVars == <<nodes, animVars, frameVars, interVars, perfVars, uiVars, ghostVars>>

ShowMessage(duration) ==
  /\ Idle
  /\ messageCount + Len(descriptionTimers) < MaxMessages
  /\ ShowMessageStep(duration, "show")
  /\ UNCHANGED <<descriptionTimers, audioVars, OtherVars>>

HideMessage ==
  /\ Idle
  /\ Len(clearTimers) < MaxTimers
  /\ HideMessageStep("hide")
  /\ UNCHANGED <<audioVars, OtherVars>>

\* The auto-hide timer of showMessage fires: hideMessage().
HideTimeoutFires ==
  /\ Idle
  /\ hideTimeout # <<>>
  /\ hideTimeout[1] <= textClock
  /\ HideMessageStep("hideTimeout")
  /\ UNCHANGED <<audioVars, OtherVars>>

\* A delayed clear of hideMessage fires: clearMessage() on whatever element is
\* current by then.
DelayedClearFires ==
  /\ Idle
  /\ clearTimers # <<>>
  /\ Head(clearTimers) <= textClock
  /\ clearTimers' = Tail(clearTimers)
  /\ currentMessage' = ClearMessage(currentMessage, container)
  /\ hideTimeout' = <<>>
  /\ textLast' = TextOp("delayedClear", Removed(currentMessage, container))
  /\ UNCHANGED <<textClock, container, descriptionTimers, messageCount, audioVars,
                 OtherVars>>

\* ChroniclesApp.playFluteSound: the poem now, the description 4500 ms later.
PlayFluteSound ==
  /\ Idle
  /\ messageCount + Len(descriptionTimers) + 1 < MaxMessages
  /\ ShowMessageStep(PoemDurationMs, "show")
  /\ descriptionTimers' = Append(descriptionTimers, textClock + DescriptionDelayMs)
  /\ UNCHANGED <<audioVars, OtherVars>>

\* The timer of playFluteSound fires: showDescription(..., 3000).
DescriptionTimerFires ==
  /\ Idle
  /\ descriptionTimers # <<>>
  /\ Head(descriptionTimers) <= textClock
  /\ descriptionTimers' = Tail(descriptionTimers)
  /\ ShowMessageStep(DescriptionDurationMs, "show")
  /\ UNCHANGED <<audioVars, OtherVars>>

\* TextDisplayManager.dispose(): clearMessage(), then the container goes.
DisposeText ==
  /\ Idle
  /\ container
  /\ container' = FALSE
  /\ currentMessage' = ClearMessage(currentMessage, container)
  /\ hideTimeout' = <<>>
  /\ textLast' = TextOp("dispose", Removed(currentMessage, container))
  /\ UNCHANGED <<textClock, clearTimers, descriptionTimers, messageCount, audioVars,
                 OtherVars>>

\* Timers run when they are due: the clock moves on only when none is.
AdvanceTextClock(bound) ==
  /\ Idle
  /\ hideTimeout # <<>> => hideTimeout[1] > textClock
  /\ clearTimers # <<>> => Head(clearTimers) > textClock
  /\ descriptionTimers # <<>> => Head(descriptionTimers) > textClock
  /\ textClock + ClockStep <= bound
  /\ textClock' = textClock + ClockStep
  /\ UNCHANGED <<container, currentMessage, hideTimeout, clearTimers, descriptionTimers,
                 messageCount, textLast, audioVars, OtherVars>>

----------------------------------------------------------------------------
(* AudioManager: the sources and gain nodes registered by name *)

Sounds == {"flute", "wine"}

SourceNode(name, loop) == [name |-> name, loop |-> loop, phase |-> "playing"]

\* source.stop(): a playing source stops, its ended event is still to come.
StopSource(list, id) ==
  IF id # 0 /\ list[id].phase = "playing"
  THEN [list EXCEPT ![id].phase = "stopped"]
  ELSE list

\* cleanupSound(name): both maps forget the name.
CleanupSound(map, name) == [map EXCEPT ![name] = 0]

\* isPlaying(name): sources.has(name).
IsPlaying(name) == sources[name] # 0

\* loadSound(name, url) has decoded its buffer.
LoadSound(name) ==
  /\ Idle
  /\ name \notin sounds
  /\ sounds' = sounds \cup {name}
  /\ UNCHANGED <<sources, gainNodes, started, textVars, OtherVars>>

\* playSound(name, loop): stopSound(name), then a new source and gain node are
\* registered under name and the source starts; a non-looping source gets the
\* onended handler.
PlaySound(name, loop) ==
  LET id == Len(started) + 1
  IN  /\ Idle
      /\ name \in sounds
      /\ Len(started) < MaxSources
      /\ started' = Append(StopSource(started, sources[name]), SourceNode(name, loop))
      /\ sources' = [CleanupSound(sources, name) EXCEPT ![name] = id]
      /\ gainNodes' = [CleanupSound(gainNodes, name) EXCEPT ![name] = id]
      /\ UNCHANGED <<sounds, textVars, OtherVars>>

\* stopSound(name): stops and forgets the registered source.
StopSound(name) ==
  /\ Idle
  /\ sources[name] # 0
  /\ started' = StopSource(started, sources[name])
  /\ sources' = CleanupSound(sources, name)
  /\ gainNodes' = CleanupSound(gainNodes, name)
  /\ UNCHANGED <<sounds, textVars, OtherVars>>

\* The ended event of a source is delivered, after its buffer has played to
\* the end or after stop(): the onended handler of a non-looping source runs
\* cleanupSound(name).
SourceEnded(id) ==
  /\ Idle
  /\ id \in 1..Len(started)
  /\ \/ started[id].phase = "stopped"
     \/ started[id].phase = "playing" /\ ~started[id].loop
  /\ started' = [started EXCEPT ![id].phase = "ended"]
  /\ IF started[id].loop
     THEN UNCHANGED <<sources, gainNodes>>
     ELSE /\ sources' = CleanupSound(sources, started[id].name)
          /\ gainNodes' = CleanupSound(gainNodes, started[id].name)
  /\ UNCHANGED <<sounds, textVars, OtherVars>>

----------------------------------------------------------------------------
(* Initial state: the state after the construction of the three objects. *)

Init ==
  /\ nodes = [n \in Nodes |-> InitNode(n)]
  /\ animations = <<>>
  /\ isRunning = FALSE
  /\ now = 0
  /\ rafQueue = <<>>
  /\ frameQueue = <<>>
  /\ frameLog = <<>>
  /\ animationId = FALSE
  /\ interactableObjects = <<>>
  /\ currentHoveredObject = NoEntity
  /\ pointerLocked = FALSE
  /\ event = NoEvent
  /\ frameCount = 0
  /\ sinceSample = 0
  /\ averageFPS = 60
  /\ performanceLevel = "high"
  /\ quality = HighQuality
  /\ optimizationSettings = [enableLOD |-> TRUE, enableFrustumCulling |-> TRUE]
  /\ lodObjects = <<>>
  /\ camera = [y |-> 5 * Unit, inFrustum |-> Nodes]
  /\ framesRendered = 0
  /\ sample = [frames |-> 0, deltaTime |-> 0, previous |-> "high"]
  /\ settingsVisible = FALSE
  /\ helpVisible = FALSE
  /\ gameSettings = DefaultSettings
  /\ ui = NoUiEvent
  /\ textClock = 0
  /\ container = TRUE
  /\ currentMessage = NoMessage
  /\ hideTimeout = <<>>
  /\ clearTimers = <<>>
  /\ descriptionTimers = <<>>
  /\ messageCount = 0
  /\ textLast = NoTextOp
  /\ sounds = {}
  /\ sources = [name \in Sounds |-> 0]
  /\ gainNodes = [name \in Sounds |-> 0]
  /\ started = <<>>
  /\ registrations = 0
  /\ regSnap = [id \in AnimationIds |-> NoSnap]
  /\ last = NoOp

NextAnim ==
  \/ \E r \in AnimationRequests : AddAnimation(r.id, r.object, r.config)
  \/ \E id \in AnimationIds : RemoveAnimation(id)
  \/ \E id \in AnimationIds : PlayAnimation(id)
  \/ \E id \in AnimationIds : PauseAnimation(id)
  \/ AdvanceClock(MaxTime)
  \/ BeginFrame(MaxFrames)
  \/ AnimationFrame

SpecAnim == Init /\ [][NextAnim]_vars

NextInteraction ==
  \/ \E e \in Entities : AddInteractableObject(e)
  \/ \E e \in Entities : RemoveInteractableObject(e)
  \/ \E hits \in RayHits(interactableObjects) : OnCanvasMouseMove(hits)
  \/ \E hits \in RayHits(interactableObjects) : OnCanvasClick(hits)
  \/ PointerLockChange
  \/ Dispose

SpecInteraction == Init /\ [][NextInteraction]_vars

\* The same with the per-frame update(), which raycasts and looks at nothing else.
NextHover ==
  \/ NextInteraction
  \/ \E hits \in RayHits(interactableObjects) : InteractionUpdate(hits)

SpecHover == Init /\ [][NextHover]_vars

NextPerformance ==
  \/ StartRenderLoop
  \/ BeginFrame(MaxFrames)
  \/ SceneFrame
  \/ \E gap \in TimerGaps : TimerCallback(gap)

SpecPerformance == Init /\ [][NextPerformance]_vars

NextLOD ==
  \/ \E r \in LODRequests : AddLODObject(r.object, r.config)
  \/ \E lod \in BOOLEAN, cull \in BOOLEAN :
       SetOptimizationSettings([enableLOD |-> lod, enableFrustumCulling |-> cull])
  \/ \E y \in CameraHeights, f \in SUBSET {"blade"} : MoveCamera(y, f)
  \/ OptimizerUpdate
  \/ OptimizerUpdateLOD

SpecLOD == Init /\ [][NextLOD]_vars

\* One id animated over more than a whole cycle, looping or not.
LoopRequests ==
  { Request("a", "blade", Config("float", 4, 2 * Unit, 0, FALSE, TRUE)),
    Request("a", "blade", Config("bounce", 4, Unit, 0, FALSE, TRUE)),
    Request("a", "blade", Config("float", 4, 2 * Unit, 0, TRUE, TRUE)) }

NextLoop ==
  \/ \E r \in LoopRequests : AddAnimation(r.id, r.object, r.config)
  \/ \E r \in LoopRequests : RemoveAnimation(r.id)
  \/ \E r \in LoopRequests : PlayAnimation(r.id)
  \/ \E r \in LoopRequests : PauseAnimation(r.id)
  \/ AdvanceClock(MaxLoopTime)
  \/ BeginFrame(MaxFrames)
  \/ AnimationFrame

SpecLoop == Init /\ [][NextLoop]_vars

\* The waveforms over more than a cycle: two ids on one node, with instances
\* that write the same attribute and instances that write different ones.
WaveRequests ==
  { Request("a", "blade", Config("rotate", 2, 0, 2 * Unit, TRUE, TRUE)),
    Request("a", "blade", Config("rotate", 4, 0, 2 * Unit, TRUE, TRUE)),
    Request("a", "blade", Config("bounce", 4, Unit, 0, TRUE, TRUE)),
    Request("b", "blade", Config("float", 4, 2 * Unit, 0, TRUE, TRUE)) }

NextWave ==
  \/ \E r \in WaveRequests : AddAnimation(r.id, r.object, r.config)
  \/ \E id \in AnimationIds : RemoveAnimation(id)
  \/ \E id \in AnimationIds : PlayAnimation(id)
  \/ \E id \in AnimationIds : PauseAnimation(id)
  \/ AdvanceClock(MaxWaveTime)
  \/ BeginFrame(MaxFrames)
  \/ AnimationFrame

SpecWave == Init /\ [][NextWave]_vars

\* The application: the scene registers its animations before the render loop
\* starts (main.ts: createScene, then startApplication), and from then on the
\* browser runs frames while handlers register, remove, play and pause.
FrameRequests ==
  { Request("a", "blade", Config("float", 4, 2 * Unit, 0, TRUE, TRUE)) }

NextFrame ==
  \/ \E r \in FrameRequests : AddAnimation(r.id, r.object, r.config)
  \/ \E r \in FrameRequests : RemoveAnimation(r.id)
  \/ \E r \in FrameRequests : PlayAnimation(r.id)
  \/ \E r \in FrameRequests : PauseAnimation(r.id)
  \/ AddLODObject("blade", LODConfig(Unit, 2 * Unit, 4 * Unit, TRUE, 0))
  \/ isRunning /\ StartRenderLoop
  \/ AdvanceClock(MaxTime)
  \/ BeginFrame(MaxFrameSteps)
  \/ AnimationFrame
  \/ SceneFrame
  \/ TimerCallback(SampleWindowMs)

SpecFrame == Init /\ [][NextFrame]_vars

\* One animation started and stopped, with a browser that keeps running the
\* frames that were requested.
NextCancel ==
  \/ \E r \in FrameRequests : AddAnimation(r.id, r.object, r.config)
  \/ \E id \in AnimationIds : RemoveAnimation(id)
  \/ \E id \in AnimationIds : PlayAnimation(id)
  \/ \E id \in AnimationIds : PauseAnimation(id)
  \/ AdvanceClock(MaxTime)
  \/ BeginFrame(MaxFrames)
  \/ AnimationFrame

SpecCancel ==
  /\ Init
  /\ [][NextCancel]_vars
  /\ WF_vars(BeginFrame(MaxFrames))
  /\ WF_vars(AnimationFrame)

\* The panels and the keyboard, with the governor's timer running.
NextUI ==
  \/ \E key \in Keys : KeyDown(key)
  \/ SettingsToggleClick
  \/ SettingsCloseClick
  \/ \E sq \in ShadowQualities, fog \in BOOLEAN : ApplySettingsClick(sq, fog)
  \/ TimerCallback(SampleWindowMs)

SpecUI == Init /\ [][NextUI]_vars

NextText ==
  \/ \E duration \in {0, DescriptionDurationMs, PoemDurationMs} : ShowMessage(duration)
  \/ HideMessage
  \/ PlayFluteSound
  \/ DisposeText
  \/ HideTimeoutFires
  \/ DelayedClearFires
  \/ DescriptionTimerFires
  \/ AdvanceTextClock(MaxTextTime)

SpecText == Init /\ [][NextText]_vars

NextAudio ==
  \/ \E name \in Sounds : LoadSound(name)
  \/ \E name \in Sounds, loop \in BOOLEAN : PlaySound(name, loop)
  \/ \E name \in Sounds : StopSound(name)
  \/ \E id \in 1..MaxSources : SourceEnded(id)

SpecAudio == Init /\ [][NextAudio]_vars

Next ==
  \/ NextAnim \/ NextInteraction \/ NextPerformance \/ NextLOD \/ NextFrame
  \/ NextUI \/ NextLoop \/ NextText \/ NextAudio

Spec == Init /\ [][Next]_vars

----------------------------------------------------------------------------
(* Properties of the AnimationManager, checked under SpecAnim *)

ActiveCount == Cardinality({i \in 1..Len(animations) : animations[i].isActive})

\* C1: after removeAnimation(id) of a registered id, the node's position,
\* rotation, scale and emissive colour equal the values they had when id was
\* registered, whatever ticks, plays and pauses came in between and whatever the
\* animation kind.
RoundTripRestoresBaseline ==
  (last.op = "remove" /\ last.snap.valid)
    => Attrs(last.snap.object) = last.snap.attrs

\* C1 witness: the Float of amplitude 2 registered on the baseline y = 5 had been
\* ticked to y = 7 (quarter cycle) and its removal has put y = 5 back.
RoundTripWitness ==
  /\ last.op = "remove" /\ last.snap.valid /\ last.snap.type = "float"
  /\ last.snap.attrs.position.y = 5 * Unit
  /\ last.before.position.y = 7 * Unit
  /\ nodes[last.snap.object].position.y = 5 * Unit

\* C6 as claimed: the tick loop is running exactly when at least one registered
\* instance is active.
LoopRunsIffSomeActive == isRunning <=> (ActiveCount > 0)

\* C9 as claimed: a tick leaves unchanged every node whose only active instance
\* has a duration <= 0.
ZeroDurationSkipped ==
  [][ last'.op = "tick" =>
        \A i \in 1..Len(animations) :
          ( /\ animations[i].isActive
            /\ animations[i].config.duration <= 0
            /\ \A j \in 1..Len(animations) :
                 (j # i /\ animations[j].object = animations[i].object)
                   => ~animations[j].isActive )
          => nodes'[animations[i].object] = nodes[animations[i].object] ]_vars

IdsOf(anims) == {anims[k].id : k \in 1..Len(anims)}

\* C15: an addAnimation call with an id that is already registered leaves one
\* instance under that id; the instance it stores has, as its baseline, the
\* node's attributes at the time of the call; and the call does not put the node
\* back to the replaced instance's baseline: the nodes stay as they are, or,
\* when the call starts the loop, as the first update() of the loop puts them.
ReRegisterReplacesWithoutRestore ==
  [][ (registrations' = registrations + 1 /\ IdsOf(animations') = IdsOf(animations)) =>
        /\ Len(animations') = Len(animations)
        /\ \A i, j \in 1..Len(animations') :
             animations'[i].id = animations'[j].id => i = j
        /\ \A k \in 1..Len(animations') :
             animations'[k] # animations[k] =>
               /\ animations'[k].id = animations[k].id
               /\ animations'[k].originalPosition = nodes[animations'[k].object].position
               /\ animations'[k].originalRotation = nodes[animations'[k].object].rotation
               /\ animations'[k].originalScale = nodes[animations'[k].object].scale
               /\ animations'[k].originalEmissive = nodes[animations'[k].object].emissive
        /\ nodes' = IF isRunning \/ ~isRunning' THEN nodes
                    ELSE UpdateLoop(animations', 1, nodes, now) ]_vars

\* C15 witness: id "a" was registered again while its Float held the blade at
\* y = 7; the one instance under "a" has y = 7 as its baseline and the blade
\* was not put back to y = 5.
ReRegisterWitness ==
  /\ registrations = 2
  /\ Len(animations) = 1 /\ animations[1].id = "a"
  /\ animations[1].object = "blade"
  /\ animations[1].originalPosition.y = 7 * Unit
  /\ nodes["blade"].position.y >= 7 * Unit

SoleActiveOnNode(i) ==
  \A j \in 1..Len(animations) :
    (j # i /\ animations[j].object = animations[i].object) => ~animations[j].isActive

\* C14 (checked under SpecLoop): a tick removes and deactivates nothing, and it
\* leaves the node of an active loop:false instance exactly where the same
\* instance with loop:true would be put, also once elapsed exceeds the duration.
NonLoopingKeepsCycling ==
  [][ frameLog' = Append(frameLog, "tick") =>
        /\ animations' = animations
        /\ \A i \in 1..Len(animations) :
             (animations[i].isActive /\ ~animations[i].config.loop
                /\ SoleActiveOnNode(i))
             => LET anim    == animations[i]
                    elapsed == now - anim.startTime
                IN  nodes'[anim.object] =
                      UpdateAnimation(nodes[anim.object],
                                      [anim EXCEPT !.config.loop = TRUE],
                                      Progress(elapsed, anim.config.duration),
                                      elapsed) ]_vars

\* C14 witness: a tick has just put the loop:false Float of amplitude 2, five
\* seconds after its start (duration 4), at the quarter-cycle offset +2.
NonLoopingWitness ==
  /\ last.op = "tick"
  /\ \E i \in 1..Len(animations) :
       /\ animations[i].isActive /\ ~animations[i].config.loop
       /\ animations[i].config.type = "float"
       /\ now - animations[i].startTime > animations[i].config.duration
       /\ nodes[animations[i].object].position.y =
            animations[i].originalPosition.y + 2 * Unit

\* C24 (checked under SpecAnim): no step changes the emissive value of a node
\* without an emissive-capable material, an instance registered on such a node
\* holds no captured emissive value, and a tick of an active Glow instance that
\* is alone on such a node leaves every attribute of the node as it was.
GlowUnsupportedIsNoOp ==
  [][ /\ \A n \in Nodes :
           ~IsPhongMesh(n) => nodes'[n].emissive = nodes[n].emissive
      /\ \A i \in 1..Len(animations') :
           ~IsPhongMesh(animations'[i].object) => ~animations'[i].hasEmissive
      /\ frameLog' = Append(frameLog, "tick") =>
           \A i \in 1..Len(animations) :
             (animations[i].isActive /\ animations[i].config.type = "glow"
                /\ ~IsPhongMesh(animations[i].object) /\ SoleActiveOnNode(i))
             => nodes'[animations[i].object] = nodes[animations[i].object] ]_vars

\* C24 witness: a tick has just run with an active Glow instance on the
\* lantern, whose material is not emissive-capable, one second into its phase.
GlowUnsupportedWitness ==
  /\ last.op = "tick"
  /\ \E i \in 1..Len(animations) :
       /\ animations[i].isActive /\ animations[i].config.type = "glow"
       /\ ~IsPhongMesh(animations[i].object)
       /\ now - animations[i].startTime = 1

\* The instance is the only active one of its kind on its node.
SoleActiveOfType(i) ==
  \A j \in 1..Len(animations) :
    (j # i /\ animations[j].object = animations[i].object
       /\ animations[j].config.type = animations[i].config.type)
    => ~animations[j].isActive

\* C22 (checked under SpecWave): a tick at elapsed time e puts the node of an
\* active Rotate instance at baseline rotation + e * speed about the up axis,
\* for every e and whatever the duration: the value grows with e and is never
\* reduced modulo the duration.
RotateAccumulates ==
  [][ frameLog' = Append(frameLog, "tick") =>
        \A i \in 1..Len(animations) :
          (animations[i].isActive /\ animations[i].config.type = "rotate"
             /\ SoleActiveOfType(i))
          => LET anim == animations[i]
                 e    == now - anim.startTime
             IN  /\ nodes'[anim.object].rotation.y =
                       anim.originalRotation.y + e * anim.config.speed
                 /\ nodes'[anim.object].rotation.x = anim.originalRotation.x
                 /\ nodes'[anim.object].rotation.z = anim.originalRotation.z ]_vars

\* C22 witness: speed 2 and duration 2, three seconds after the phase start:
\* the tick has put the rotation at baseline + 6.
RotateWitness ==
  /\ last.op = "tick"
  /\ \E i \in 1..Len(animations) :
       /\ animations[i].isActive /\ animations[i].config.type = "rotate"
       /\ animations[i].config.duration = 2
       /\ animations[i].config.speed = 2 * Unit
       /\ now - animations[i].startTime = 3
       /\ nodes[animations[i].object].rotation.y =
            animations[i].originalRotation.y + 6 * Unit

\* The instance a tick has just applied alone to its node: an active Bounce
\* with a configured amplitude, and its progress in quarter cycles.
BounceTicked(i) ==
  /\ last.op = "tick"
  /\ animations[i].isActive
  /\ animations[i].config.type = "bounce"
  /\ animations[i].config.amplitude > 0
  /\ SoleActiveOnNode(i)

BounceQuarter(i) ==
  Progress(now - animations[i].startTime, animations[i].config.duration)

BounceHeight(i) ==
  nodes[animations[i].object].position.y - animations[i].originalPosition.y

\* 4 * b * (1 - b) * amplitude with b = 2 * progress below progress 0.5 and
\* 2 * (1 - progress) from there on, for a progress of q quarter cycles.
BounceFormula(q, amplitude) ==
  LET b4 == IF q < 2 THEN 2 * q ELSE 2 * (4 - q)
  IN  (b4 * (4 - b4) * amplitude) \div 4

\* C23 as claimed: the height of a Bounce is 0 at progress 0, the amplitude at
\* progress 0.5, and always within 0..amplitude.
BouncePeaksAtHalf ==
  \A i \in 1..Len(animations) :
    BounceTicked(i) =>
      /\ BounceQuarter(i) = 0 => BounceHeight(i) = 0
      /\ BounceQuarter(i) = 2 => BounceHeight(i) = animations[i].config.amplitude
      /\ BounceHeight(i) >= 0
      /\ BounceHeight(i) <= animations[i].config.amplitude

\* C23 (checked under SpecWave), amended: the height of a Bounce is
\* amplitude * 4 * b * (1 - b) with b = 2 * progress below progress 0.5 and
\* 2 * (1 - progress) from there on: 0 at progress 0 and at progress 0.5, the
\* amplitude at progress 0.25 and 0.75, never negative nor above the amplitude,
\* and x and z stay at the baseline.
BounceTwoArcs ==
  \A i \in 1..Len(animations) :
    BounceTicked(i) =>
      /\ BounceHeight(i) = BounceFormula(BounceQuarter(i), animations[i].config.amplitude)
      /\ BounceQuarter(i) \in {0, 2} => BounceHeight(i) = 0
      /\ BounceQuarter(i) \in {1, 3} => BounceHeight(i) = animations[i].config.amplitude
      /\ BounceHeight(i) >= 0
      /\ BounceHeight(i) <= animations[i].config.amplitude
      /\ nodes[animations[i].object].position.x = animations[i].originalPosition.x
      /\ nodes[animations[i].object].position.z = animations[i].originalPosition.z

\* C23 witness: a tick at progress 0.5 of a Bounce of amplitude 1 has left the
\* node at its baseline height.
BounceHalfWitness ==
  \E i \in 1..Len(animations) :
    /\ BounceTicked(i)
    /\ BounceQuarter(i) = 2
    /\ animations[i].config.amplitude = Unit
    /\ BounceHeight(i) = 0

\* The attribute of the node each kind of instance writes.
AttributeOf(type) ==
  CASE type \in {"float", "bounce"} -> "position"
    [] type = "rotate" -> "rotation"
    [] type = "pulse" -> "scale"
    [] OTHER -> "emissive"

\* The active instances that write attribute a of node n, by index in tick order.
Writers(n, a) ==
  {i \in 1..Len(animations) :
     /\ animations[i].isActive
     /\ animations[i].object = n
     /\ AttributeOf(animations[i].config.type) = a}

Last(S) == CHOOSE i \in S : \A j \in S : j <= i

\* C28 (checked under SpecWave): after a tick, every attribute of a node that
\* active instances write equals what the instance latest in the tick order
\* alone makes of it, baseline plus its own offset, so instances on different
\* attributes all take effect and of instances on one attribute only the last.
LaterInstanceWins ==
  [][ frameLog' = Append(frameLog, "tick") =>
        \A n \in Nodes : \A a \in {"position", "rotation", "scale"} :
          Writers(n, a) # {} =>
            LET anim    == animations[Last(Writers(n, a))]
                elapsed == now - anim.startTime
            IN  nodes'[n][a] =
                  UpdateAnimation(nodes[n], anim,
                                  Progress(elapsed, anim.config.duration),
                                  elapsed)[a] ]_vars

\* C28 witness: a tick a quarter cycle into an active Bounce (amplitude 1) and
\* a later active Float (amplitude 2) on one node has left the node at the
\* Float's baseline + 2, without the Bounce's + 1.
LaterInstanceWitness ==
  /\ last.op = "tick"
  /\ Len(animations) = 2
  /\ animations[1].isActive /\ animations[2].isActive
  /\ animations[1].object = animations[2].object
  /\ animations[1].config.type = "bounce"
  /\ animations[2].config.type = "float"
  /\ now - animations[1].startTime = 1
  /\ now - animations[2].startTime = 1
  /\ animations[1].originalPosition = animations[2].originalPosition
  /\ nodes[animations[2].object].position.y =
       animations[2].originalPosition.y + 2 * Unit

\* C33 as claimed: removing one of two instances that drive different
\* attributes of a node leaves the attribute the other one drives as it was,
\* and when two such instances, the only ones ever registered, have both been
\* removed, position, rotation, scale and emissive of the node are what they
\* were before the first registration.
StackedAnimationsUnwind ==
  [][ \A id \in AnimationIds :
        LET i == IndexOfId(animations, id, 1)
        IN  (i > 0 /\ RemoveAnimation(id)) =>
              LET n == animations[i].object
                  a == AttributeOf(animations[i].config.type)
              IN  /\ \A j \in 1..Len(animations) :
                       (/\ j # i
                        /\ animations[j].object = n
                        /\ animations[j].isActive
                        /\ AttributeOf(animations[j].config.type) # a)
                       => nodes'[n][AttributeOf(animations[j].config.type)] =
                            nodes[n][AttributeOf(animations[j].config.type)]
                  /\ (/\ Len(animations) = 1
                      /\ registrations = 2
                      /\ last.op = "remove" /\ last.snap.valid
                      /\ last.snap.object = n
                      /\ AttributeOf(last.snap.type) # a)
                     => /\ nodes'[n].position = InitNode(n).position
                        /\ nodes'[n].rotation = InitNode(n).rotation
                        /\ nodes'[n].scale    = InitNode(n).scale
                        /\ nodes'[n].emissive = InitNode(n).emissive ]_vars

\* C29 (checked under SpecWave): pauseAnimation of a registered id only marks
\* the instance inactive and touches no node; playAnimation marks it active and
\* sets its phase start to the current clock, already active or not; a tick
\* leaves every attribute that no active instance writes at its last value, and
\* it evaluates an instance whose phase started at the current clock at elapsed
\* 0 and progress 0.
PlayPauseSemantics ==
  [][ /\ \A id \in AnimationIds :
           LET i == IndexOfId(animations, id, 1)
           IN  /\ (i > 0 /\ PauseAnimation(id)) =>
                    /\ animations' = [animations EXCEPT ![i].isActive = FALSE]
                    /\ nodes' = nodes
               /\ (i > 0 /\ PlayAnimation(id)) =>
                    animations' = [animations EXCEPT ![i].isActive = TRUE,
                                                     ![i].startTime = now]
      /\ frameLog' = Append(frameLog, "tick") =>
           \A n \in Nodes : \A a \in {"position", "rotation", "scale", "emissive"} :
             IF Writers(n, a) = {} THEN nodes'[n][a] = nodes[n][a]
             ELSE LET anim == animations[Last(Writers(n, a))]
                  IN  anim.startTime = now =>
                        nodes'[n][a] = UpdateAnimation(nodes[n], anim, 0, 0)[a] ]_vars

\* C29 witness: the Float of amplitude 2 was paused a quarter cycle into its
\* phase; a tick at half a cycle, which applied the active Rotate on the same
\* node, has left the node at the Float's baseline + 2.
PausedKeepsValueWitness ==
  /\ last.op = "tick"
  /\ \E i, j \in 1..Len(animations) :
       /\ ~animations[i].isActive
       /\ animations[i].config.type = "float"
       /\ now - animations[i].startTime = 2
       /\ nodes[animations[i].object].position.y =
            animations[i].originalPosition.y + 2 * Unit
       /\ animations[j].isActive
       /\ animations[j].config.type = "rotate"
       /\ animations[j].object = animations[i].object
       /\ nodes[animations[j].object].rotation.y # animations[j].originalRotation.y

\* C32 as claimed: at most one animation tick is pending at any time.
AtMostOneTickPending ==
  PendingTicks(rafQueue) + PendingTicks(frameQueue) <= 1

NoTickPending == PendingTicks(rafQueue) = 0 /\ PendingTicks(frameQueue) = 0

\* C30 (checked under SpecCancel): the scheduled tick that finds the loop
\* stopped changes no node and requests no further tick, and from a stopped
\* loop that is not started again a state with no tick pending is reached.
CooperativeCancellation ==
  /\ [][ (/\ frameQueue # <<>>
           /\ Head(frameQueue) = "anim"
           /\ ~isRunning
           /\ frameQueue' = Tail(frameQueue))
          => /\ nodes' = nodes
             /\ rafQueue' = rafQueue
             /\ animations' = animations ]_vars
  /\ (~isRunning ~> (isRunning \/ NoTickPending))

\* C30 witness: the loop was stopped while a tick was scheduled; that tick has
\* just been cancelled and none is pending.
CancelledTickWitness ==
  /\ ~isRunning
  /\ frameLog # <<>>
  /\ frameLog[Len(frameLog)] = "cancelled"
  /\ NoTickPending

----------------------------------------------------------------------------
(* Properties of the InteractionSystem, checked under SpecInteraction *)

\* The callbacks fired by the last call, without the hover state they ran in.
Fired == [k \in 1..Len(event.calls) |-> <<event.calls[k].cb, event.calls[k].entity>>]

Resolved == event.op \in {"mousemove", "click"} /\ event.locked

\* The entity a hit maps to and whether the hit is within that entity's radius.
HitEntity(k) == FindEntity(interactableObjects, event.hits[k].object, 1)

HitInRange(k) ==
  /\ HitEntity(k) # NoEntity
  /\ event.hits[k].distance <= InteractionDistance(HitEntity(k))

\* C2: a pointer-move that resolves a target different from the stored hover
\* fires hover-end of the previous entity and then hover-begin of the new one,
\* each once and only for an entity that is there and supplies the callback, and
\* stores the new target; a pointer-move that resolves the stored hover fires
\* nothing.
HoverTransitionOrder ==
  (event.op = "mousemove" /\ event.locked) =>
    /\ currentHoveredObject = event.target
    /\ Fired =
         IF event.target = event.prev THEN <<>>
         ELSE (IF event.prev # NoEntity /\ HasOnHoverEnd(event.prev)
               THEN << <<"onHoverEnd", event.prev>> >> ELSE <<>>)
              \o (IF event.target # NoEntity /\ HasOnHover(event.target)
                  THEN << <<"onHover", event.target>> >> ELSE <<>>)

\* C2 witness: the hover went from one entity to another and both callbacks fired.
HoverTransitionWitness ==
  /\ event.op = "mousemove" /\ event.locked
  /\ event.prev = "E2" /\ event.target = "E3"
  /\ Fired = << <<"onHoverEnd", "E2">>, <<"onHover", "E3">> >>

\* C3: when the nearest hit maps to an entity that is out of its own range and a
\* farther hit maps to another entity within its own range, the result is
\* neither none nor the nearer entity; with just these two hits it is the
\* farther entity.
OutOfRangeHitDoesNotBlock ==
  (Resolved /\ Len(event.hits) >= 2 /\ HitEntity(1) # NoEntity /\ ~HitInRange(1)
     /\ \E k \in 2..Len(event.hits) : HitInRange(k) /\ HitEntity(k) # HitEntity(1))
  => /\ event.target # NoEntity
     /\ event.target # HitEntity(1)
     /\ Len(event.hits) = 2 => event.target = HitEntity(2)

\* C3 witness: the nearer hit is on E1's subtree beyond E1's radius, the farther
\* hit is on E3 within its radius, and E3 is the result.
OutOfRangeHitWitness ==
  /\ Resolved /\ Len(event.hits) = 2
  /\ HitEntity(1) = "E1" /\ ~HitInRange(1)
  /\ HitEntity(2) = "E3" /\ HitInRange(2)
  /\ event.target = "E3"

\* C7 as claimed: unregistering the hovered entity fires its hover-end callback
\* once and clears the hover; unregistering another registered entity fires
\* nothing and leaves the hover unchanged.
UnregisterHoveredFiresHoverEnd ==
  (event.op = "remove" /\ event.locked) =>
    IF event.prev = event.arg
    THEN /\ currentHoveredObject = NoEntity
         /\ Fired = IF HasOnHoverEnd(event.arg)
                    THEN << <<"onHoverEnd", event.arg>> >> ELSE <<>>
    ELSE /\ currentHoveredObject = event.prev
         /\ Fired = <<>>

\* C36 (checked under SpecInteraction): a pointer-move or click that arrives
\* while the canvas does not hold the pointer lock fires no callback and leaves
\* the stored hover as it was, and a change of the pointer lock itself fires
\* nothing and leaves the stored hover as it was.
PointerLockGates ==
  /\ []( (event.op \in {"mousemove", "click"} /\ ~event.locked) =>
           (event.calls = <<>> /\ currentHoveredObject = event.prev) )
  /\ [][ pointerLocked' # pointerLocked =>
           (currentHoveredObject' = currentHoveredObject /\ event' = event) ]_vars

\* C36 witness: the pointer lock was lost while an entity was hovered, and a
\* pointer-move has arrived since; the entity is still stored as hovered.
PointerLockGatesWitness ==
  /\ event.op = "mousemove" /\ ~event.locked
  /\ ~pointerLocked
  /\ currentHoveredObject # NoEntity
  /\ HasOnHoverEnd(currentHoveredObject)

\* C35 as claimed (checked under SpecHover): whenever an entity is stored as
\* hovered, the ray of the
\* current camera pose resolves to that entity, also in a frame rendered after
\* the camera moved with no pointer-move delivered.
HoverNeverStale ==
  (event.op = "update" /\ currentHoveredObject # NoEntity) =>
    event.target = currentHoveredObject

\* C34 (checked under SpecInteraction): the stored hovered entity, a single
\* value, is none or an entity that is in the registry.
HoverIsRegistered ==
  \/ currentHoveredObject = NoEntity
  \/ \E i \in 1..Len(interactableObjects) :
       interactableObjects[i] = currentHoveredObject

\* C34 witness: a registered entity other than the hovered one has just been
\* removed and the hover is still stored.
HoverIsRegisteredWitness ==
  /\ event.op = "remove" /\ event.locked
  /\ event.arg # event.prev
  /\ currentHoveredObject # NoEntity
  /\ currentHoveredObject = event.prev

\* C8: the resolved target is none or a registered entity that some hit maps to
\* at a distance within that entity's own radius; with no entity registered it
\* is none.
TargetIsRegisteredAndInRange ==
  Resolved =>
    /\ \/ event.target = NoEntity
       \/ /\ \E i \in 1..Len(interactableObjects) : interactableObjects[i] = event.target
          /\ \E k \in 1..Len(event.hits) :
               /\ IsChildOf(event.hits[k].object, EntityObject(event.target))
               /\ event.hits[k].distance <= InteractionDistance(event.target)
    /\ interactableObjects = <<>> => event.target = NoEntity

\* C8 witness: a hit at exactly the entity's radius (the bound is inclusive)
\* resolved that entity.
TargetInRangeWitness ==
  /\ Resolved /\ event.target = "E2"
  /\ Len(event.hits) >= 1
  /\ event.hits[1] = Hit("blade", InteractionDistance("E2"))

\* C11: a click resolves the target from the ray alone, whatever entity is
\* stored as hovered; it fires onInteract of that target once when there is one
\* and nothing otherwise, fires no hover callback and leaves the stored hover
\* unchanged.
ClickActivatesResolvedTarget ==
  (event.op = "click" /\ event.locked) =>
    /\ event.target = GetIntersectedInteractableObject(interactableObjects, event.hits)
    /\ Fired = IF event.target # NoEntity
               THEN << <<"onInteract", event.target>> >> ELSE <<>>
    /\ currentHoveredObject = event.prev

\* C11 witness: a click activated E3 while E2 was the stored hover.
ClickWithoutHoverWitness ==
  /\ event.op = "click" /\ event.locked
  /\ event.prev = "E2" /\ currentHoveredObject = "E2"
  /\ event.target = "E3"
  /\ Fired = << <<"onInteract", "E3">> >>

----------------------------------------------------------------------------
(* Properties of the PerformanceOptimizer, checked under SpecPerformance and
   SpecLOD *)

\* C4 as claimed: the tier set by a sample is the tier of the frame rate
\* achieved over the sampling window, frames rendered * 1000 / elapsed ms
\* (45 frames in 1000 ms give "medium", 50 "high", 29 "low").
TierFollowsFrameRate ==
  last.op = "sample" =>
    performanceLevel = LevelOf((sample.frames * 1000) \div sample.deltaTime)

\* C31 (checked under SpecPerformance): in every state the tier is "high" iff
\* the stored average is at least 50, "medium" iff it is at least 30 and below
\* 50, and "low" iff it is below 30; a timer callback that comes before the
\* sampling window is over changes neither the average nor the tier.
TierMatchesAverage ==
  /\ []( /\ performanceLevel = "high" <=> averageFPS >= HighFPS
         /\ performanceLevel = "medium" <=>
              (averageFPS >= MediumFPS /\ averageFPS < HighFPS)
         /\ performanceLevel = "low" <=> averageFPS < MediumFPS )
  /\ [][ sinceSample' > sinceSample =>
           (averageFPS' = averageFPS /\ performanceLevel' = performanceLevel) ]_vars

\* C31 witness: after a sample that stored an average below 30, a timer
\* callback has come 500 ms into the next window; the tier is still "low".
TierMatchesWitness ==
  /\ sinceSample = 500
  /\ averageFPS < MediumFPS
  /\ performanceLevel = "low"
  /\ frameCount = 2

LODMarkedVisible(entry) ==
  /\ optimizationSettings.enableLOD
  /\ ~Greater(DistanceTo(camera, nodes[entry.object].position),
              entry.config.farDistance)

\* C5: at the end of update(), a registered mesh node that the LOD pass marked
\* visible and whose bounding sphere fails the frustum test of the culling pass
\* is hidden.
CullingOverridesLOD ==
  (last.op = "update" /\ optimizationSettings.enableFrustumCulling) =>
    \A i \in 1..Len(lodObjects) :
      ( /\ IsMesh(lodObjects[i].object)
        /\ HasBoundingSphere(lodObjects[i].object)
        /\ LODMarkedVisible(lodObjects[i])
        /\ lodObjects[i].object \notin camera.inFrustum )
      => ~nodes[lodObjects[i].object].visible

\* C5 witness: the blade is registered, in its near band and outside the
\* frustum, and update() has left it hidden.
CullingOverridesWitness ==
  /\ last.op = "update"
  /\ optimizationSettings.enableFrustumCulling
  /\ \E i \in 1..Len(lodObjects) :
       /\ lodObjects[i].object = "blade"
       /\ optimizationSettings.enableLOD
       /\ DistanceTo(camera, nodes["blade"].position) <= lodObjects[i].config.mediumDistance
  /\ "blade" \notin camera.inFrustum
  /\ ~nodes["blade"].visible

----------------------------------------------------------------------------
(* Properties of the frame loop, checked under SpecFrame *)

\* C10 as claimed: in every frame the animation tick runs before the
\* update() of the PerformanceOptimizer (LOD and culling) of that frame.
TickBeforeUpdateInEveryFrame ==
  \A i, j \in 1..Len(frameLog) :
    (frameLog[i] = "update" /\ frameLog[j] = "tick") => j < i

\* The registered entity met first when walking up from node n, NoEntity when
\* neither n nor an ancestor of it is the node of a registered entity.
RECURSIVE ClosestRegistered(_, _)
ClosestRegistered(list, n) ==
  IF n = NoNode THEN NoEntity
  ELSE IF \E i \in 1..Len(list) : EntityObject(list[i]) = n
       THEN list[CHOOSE i \in 1..Len(list) : EntityObject(list[i]) = n]
       ELSE ClosestRegistered(list, Parent(n))

\* C21 as claimed: the nearest hit is mapped to the registered entity closest
\* to the hit node on the way up the scene graph, whatever the registration
\* order, and that entity is the target when the hit is within its radius.
NestedHitResolvesInnerEntity ==
  (Resolved /\ Len(event.hits) > 0) =>
    LET inner == ClosestRegistered(interactableObjects, event.hits[1].object)
    IN  (inner # NoEntity /\ event.hits[1].distance <= InteractionDistance(inner))
        => event.target = inner

\* C20 as claimed: while the callbacks of a pointer-move hover transition run,
\* the stored hovered entity is still the one hovered before the move.
HoverStateHeldDuringCallbacks ==
  (event.op = "mousemove" /\ event.locked) =>
    \A k \in 1..Len(event.calls) : event.calls[k].hovered = event.prev

\* C19 (checked under SpecAnim): removeAnimation, playAnimation and
\* pauseAnimation with an id the registry does not hold complete, leave every
\* stored instance and every node attribute as they were, and
\* isAnimationActive of that id is false afterwards.
UnknownIdIsNoOp ==
  [][\A id \in AnimationIds :
       (/\ \A k \in 1..Len(animations) : animations[k].id # id
        /\ RemoveAnimation(id) \/ PlayAnimation(id) \/ PauseAnimation(id))
       => /\ animations' = animations
          /\ nodes' = nodes
          /\ ~IsAnimationActive(id)']_vars

\* C19 witness: an id that was not registered has just been removed while
\* another instance is registered and the loop runs.
UnknownIdWitness ==
  /\ last.op = "remove"
  /\ ~last.snap.valid
  /\ animations # <<>>
  /\ isRunning

\* The state right after the LOD pass, and the distance of an entry's node.
AfterLODPass == last.op = "updateLOD" /\ optimizationSettings.enableLOD

LODDistance(i) == DistanceTo(camera, nodes[lodObjects[i].object].position)

\* The fidelity of the entry's node is the reduced one of the medium band.
MediumFidelity(n) ==
  /\ IsMesh(n) => ~nodes[n].castShadow
  /\ IsPhongMesh(n) => nodes[n].shininess <= MediumShininessCap

\* The fidelity of the entry's node is the one stored in the entry.
EntryFidelity(n, config) ==
  /\ IsMesh(n) => nodes[n].castShadow = config.castShadow
  /\ IsPhongMesh(n) =>
       nodes[n].shininess = OrDefault(config.originalShininess, DefaultShininess)

\* The band rule for one entry.
InBand(i) ==
  LET n == lodObjects[i].object
      c == lodObjects[i].config
      d == LODDistance(i)
  IN  /\ d > c.farDistance => ~nodes[n].visible
      /\ (d > c.mediumDistance /\ d <= c.farDistance) =>
           nodes[n].visible /\ MediumFidelity(n)
      /\ d <= c.mediumDistance =>
           nodes[n].visible /\ EntryFidelity(n, c)

\* C25 as claimed: right after the LOD pass every registered node is hidden
\* beyond far, visible with reduced fidelity in medium < distance <= far, and
\* visible with its entry's stored fidelity up to medium.
LODBandOfEveryEntry ==
  AfterLODPass => \A i \in 1..Len(lodObjects) : InBand(i)

\* No other entry's node is an ancestor of the entry's node.
Unnested(i) ==
  \A j \in 1..Len(lodObjects) :
    j # i => ~IsChildOf(lodObjects[i].object, lodObjects[j].object)

\* C25 (checked under SpecLOD), amended: right after the LOD pass every
\* registered node that lies below no other registered node is hidden beyond
\* far, visible with reduced fidelity in medium < distance <= far (a distance
\* equal to far included), and visible with its entry's stored fidelity up to
\* medium (a distance equal to medium included).
LODBandOfUnnestedEntry ==
  AfterLODPass => \A i \in 1..Len(lodObjects) : Unnested(i) => InBand(i)

\* C25 witness: the LOD pass has just run with the blade exactly at its far
\* distance, and the blade is visible with capped shininess and no shadow.
LODBandWitness ==
  /\ AfterLODPass
  /\ \E i \in 1..Len(lodObjects) :
       /\ lodObjects[i].object = "blade"
       /\ Unnested(i)
       /\ LODDistance(i) = lodObjects[i].config.farDistance
       /\ nodes["blade"].visible
       /\ ~nodes["blade"].castShadow
       /\ nodes["blade"].shininess = MediumShininessCap

\* C26 as claimed: right after the LOD pass a registered node in the near band
\* has the shininess and the shadow-cast flag it had when it was registered.
NearBandRestoresRegisteredFidelity ==
  AfterLODPass =>
    \A i \in 1..Len(lodObjects) :
      (Unnested(i) /\ LODDistance(i) <= lodObjects[i].config.mediumDistance)
      => LET n == lodObjects[i].object
         IN  /\ IsMesh(n) => nodes[n].castShadow = lodObjects[i].seen.castShadow
             /\ IsPhongMesh(n) => nodes[n].shininess = lodObjects[i].seen.shininess

\* C27 (checked under SpecLOD): update() completes; it leaves a mesh without a
\* bounding sphere at the visibility the LOD pass of that call gave it, and
\* with culling enabled every mesh that has a bounding sphere ends with the
\* result of the frustum test.
CullingSkipsMissingSphere ==
  [][ last'.op = "update" =>
        LET afterLOD == UpdateLOD(optimizationSettings, lodObjects, nodes, camera)
        IN  \A m \in Nodes :
              /\ (IsMesh(m) /\ ~HasBoundingSphere(m))
                 => nodes'[m].visible = afterLOD[m].visible
              /\ (IsMesh(m) /\ HasBoundingSphere(m)
                    /\ optimizationSettings.enableFrustumCulling)
                 => nodes'[m].visible = (m \in camera.inFrustum) ]_vars

\* C27 witness: update() has run with culling enabled and nothing in the
\* frustum; the registered lantern, which has no bounding sphere, is visible as
\* its near band left it, and the blade has been culled.
CullingSkipsWitness ==
  /\ last.op = "update"
  /\ optimizationSettings.enableFrustumCulling
  /\ optimizationSettings.enableLOD
  /\ camera.inFrustum = {}
  /\ \E i \in 1..Len(lodObjects) :
       /\ lodObjects[i].object = "lantern"
       /\ LODDistance(i) <= lodObjects[i].config.mediumDistance
  /\ nodes["lantern"].visible
  /\ ~nodes["blade"].visible

\* C18 as claimed: at the end of update(), every registered LOD node farther
\* from the camera than its far threshold is hidden.
FarNodeStaysHidden ==
  (last.op = "update" /\ optimizationSettings.enableLOD) =>
    \A i \in 1..Len(lodObjects) :
      Greater(DistanceTo(camera, nodes[lodObjects[i].object].position),
              lodObjects[i].config.farDistance)
      => ~nodes[lodObjects[i].object].visible

\* C17 (checked under SpecFrame): a step that changes any counter or setting
\* of the performance monitoring, as every timer callback that samples does,
\* leaves every scene node and the LOD registry unchanged.
TimerLeavesSceneAlone ==
  [][ <<frameCount, sinceSample, averageFPS, performanceLevel, sample>>'
        # <<frameCount, sinceSample, averageFPS, performanceLevel, sample>>
      => (nodes' = nodes /\ lodObjects' = lodObjects) ]_vars

\* C17 witness: a sample has set the tier to "low" while an animation held the
\* blade away from its baseline and the blade was under LOD control.
TimerLeavesSceneWitness ==
  /\ last.op = "sample" /\ performanceLevel = "low"
  /\ nodes["blade"].position.y = 7 * Unit
  /\ lodObjects # <<>>

----------------------------------------------------------------------------
(* Properties of the panels, checked under SpecUI *)

\* C37 as claimed: as long as the last thing the user did is applying the
\* settings, the scene's fog and the renderer's shadow technique are the ones
\* the user selected, whatever governor samples have come since.
UserSettingsSurviveSamples ==
  ui.name = "apply" =>
    /\ AppApplySettings(quality, gameSettings).fogNear = quality.fogNear
    /\ AppApplySettings(quality, gameSettings).fogFar = quality.fogFar
    /\ AppApplySettings(quality, gameSettings).shadowMapType = quality.shadowMapType

\* C13 as claimed: one ESC key press toggles the settings panel: it opens a
\* closed panel and closes an open one.
EscapeTogglesSettingsPanel ==
  (ui.name = "keydown" /\ ui.key = "Escape") => settingsVisible = ~ui.before


----------------------------------------------------------------------------
(* Properties of the TextDisplayManager, checked under SpecText *)

\* C38 as claimed: a message that is shown stays on the screen until its
\* duration has elapsed or a later showMessage, hideMessage or dispose replaces
\* it: a delayed clear takes off the screen only an element whose fade-out
\* hideMessage has started, never a message shown after the hide that set the
\* timer.
DelayedClearSparesLaterMessage ==
  (textLast.op = "delayedClear" /\ textLast.removed # NoMessage)
    => textLast.removed.hiding

----------------------------------------------------------------------------
(* Properties of the AudioManager, checked under SpecAudio *)

\* The source started last for a name (0: none).
MostRecent(name) ==
  LET ids == {id \in 1..Len(started) : started[id].name = name}
  IN  IF ids = {} THEN 0 ELSE CHOOSE id \in ids : \A other \in ids : other <= id

\* C39 as claimed: isPlaying(name) is true exactly while the source started
\* last for name has neither ended nor been stopped, and while it is, the gain
\* node of that source is registered under name.
IsPlayingTracksLatestSource ==
  \A name \in Sounds :
    /\ IsPlaying(name) <=>
         (MostRecent(name) # 0 /\ started[MostRecent(name)].phase = "playing")
    /\ IsPlaying(name) =>
         (sources[name] = MostRecent(name) /\ gainNodes[name] = MostRecent(name))

====
